---- MODULE Spec2Model ----
(***************************************************************************)
(* Model of the directory aggregation walk of macoptima                    *)
(* (src/cache_storage_analyzer.py: analyze_directory, get_directory_size,  *)
(* get_file_age_days).                                                     *)
(*                                                                         *)
(* The file system is an input: a bounded tree of entries, each with the   *)
(* kind the type checks report (Path.is_file / Path.is_dir follow          *)
(* symbolic links), a size, a modification time, a name and the point at   *)
(* which a system call on the entry raises an OSError, if any.  The walk   *)
(* visits the entries in an order the model does not fix; the wall clock   *)
(* advances on its own.  Times are in seconds.                             *)
(*                                                                         *)
(* The same tree is the input of the large-file finder (src/main.py:       *)
(* find_large_files), whose walk is os.walk: top-down, one directory at a  *)
(* time, never through a link to a directory.                              *)
(*                                                                         *)
(* main of the cache analyzer calls the walk once for each root and        *)
(* reports the results, largest first.  The application inventory          *)
(* (src/application_storage_analyzer.py, src/src/apps/chrome.py) has its   *)
(* own input: the entries of a folder of applications and the folders of   *)
(* the user's library.  Its times are in hours.                            *)
(***************************************************************************)
EXTENDS Integers, Sequences, FiniteSets, TLC

\* ---------------------------------------------------------------- bounds
MaxEntries == 3
MaxTicks == 1
MaxTopN == 2
MaxResults == 2
MaxApps == 2
MaxRoots == 2

\* ------------------------------------------------------- program constants
SecondsPerDay == 60 * 60 * 24
TopNDefault == 30

\* src/main.py: the defaults of find_large_files and the factor of line 32.
MinSizeDefault == 100
MaxResultsDefault == 50
BytesPerMB == 1024 * 1024
DefaultExcludes ==
    {<<".git">>, <<"node_modules">>, <<"__pycache__">>, <<".venv">>, <<"venv">>}

\* The wall clock when the model starts (400 days after the epoch).
Now0 == 400 * SecondsPerDay

\* Python's None, for the optional tuples and for the return value.
None == <<>>

\* The literal bucket of files without a suffix, as a one-element sequence so
\* that it is comparable with the suffixes (sequences of characters).
NoExtension == <<"(no extension)">>

AgeLabels == {"0-7 days", "7-30 days", "30-90 days", "90-365 days", "1+ years"}

\* ------------------------------------------------------------ file system
\* "file": regular file; "dir": directory; "symfile": symbolic link to a
\* regular file (size, mtime: those of the target, which stat() follows);
\* "symdir": symbolic link to a directory outside the tree (size: the sum
\* get_directory_size finds below the target); "other": broken link, socket.
Kinds == {"file", "dir", "symfile", "symdir", "other"}

\* Where a call on the entry raises an OSError that pathlib does not ignore:
\* "type": the stat inside is_file()/is_dir(); "stat_size": item.stat() of
\* line 87 (line 40 in get_directory_size); "stat_mtime": item.stat() of
\* line 89; "getmtime": os.path.getmtime of line 26.
Faults == {"none", "type", "stat_size", "stat_mtime", "getmtime"}

Max(S) == CHOOSE x \in S : \A y \in S : y <= x

Min2(a, b) == IF a <= b THEN a ELSE b

\* Path.is_file(): true for regular files and for links to regular files.
IsFileLike(e) == e.kind \in {"file", "symfile"}

\* Path.is_dir(): true for directories and for links to directories.
IsDirLike(e) == e.kind \in {"dir", "symdir"}

\* str.lower() on the characters the model's names use.
LowerChar(c) ==
    CASE c = "T" -> "t"
      [] c = "A" -> "a"
      [] OTHER -> c

LowerSeq(s) == [i \in 1..Len(s) |-> LowerChar(s[i])]

\* PurePath.suffix: name[i:] for i = name.rfind('.') when 0 < i < len - 1
\* (0-based), else ''.
Suffix(name) ==
    LET dots == {i \in 1..Len(name) : name[i] = "."}
        j == IF dots = {} THEN 0 ELSE Max(dots)
    IN  IF j > 1 /\ j < Len(name) THEN SubSeq(name, j, Len(name)) ELSE <<>>

\* Line 107 without .lower().
ExtOfCaseSensitive(name) == IF Suffix(name) # <<>> THEN Suffix(name) ELSE NoExtension

\* Line 107: ext = item.suffix.lower() if item.suffix else '(no extension)'
ExtOf(name) == IF Suffix(name) # <<>> THEN LowerSeq(Suffix(name)) ELSE NoExtension

\* ---------------------------------------------------------- input domains
\* Modification times: the epoch; exactly 7 days before the start (the edge
\* of the first age bucket); 8 days before the start; the start itself.
MtimeEpoch == Now0 - 400 * SecondsPerDay
MtimeEdge == Now0 - 7 * SecondsPerDay
MtimeDefault == Now0 - 8 * SecondsPerDay
MtimeStart == Now0
Mtimes == {MtimeEpoch, MtimeEdge, MtimeDefault, MtimeStart}

\* File names, as sequences of characters: a.t  a.T  R  .b  a.  a.t.A
NameDefault == <<"a", ".", "t">>
Names == {NameDefault, <<"a", ".", "T">>, <<"R">>, <<".", "b">>, <<"a", ".">>,
          <<"a", ".", "t", ".", "A">>}

\* top_n: any integer the command line accepts, here -1..MaxTopN
TopNs == -1..MaxTopN

\* The entries without their place in the tree.  Directories and other
\* entries carry no size, time or name of interest.
Profiles(kinds, sizes, mtimes, names, faults) ==
    [kind : kinds \cap {"file", "symfile"}, size : sizes, mtime : mtimes,
     name : names, fault : faults]
    \cup
    [kind : kinds \cap {"dir"}, size : {0}, mtime : {MtimeDefault},
     name : {<<"d">>}, fault : faults \cap {"none", "type"}]
    \cup
    [kind : kinds \cap {"symdir"}, size : sizes, mtime : {MtimeDefault},
     name : {<<"d">>}, fault : faults \cap {"none", "type"}]
    \cup
    [kind : kinds \cap {"other"}, size : {0}, mtime : {MtimeDefault},
     name : {<<"o">>}, fault : {"none"}]

\* A total order on the profiles, used to list siblings once only.
RankIn(S, x) == Cardinality({y \in S : y < x})

KindRank(k) ==
    CASE k = "file" -> 0 [] k = "symfile" -> 1 [] k = "dir" -> 2
      [] k = "symdir" -> 3 [] OTHER -> 4

FaultRank(f) ==
    CASE f = "none" -> 0 [] f = "type" -> 1 [] f = "stat_size" -> 2
      [] f = "stat_mtime" -> 3 [] OTHER -> 4

NameRank(n) ==
    CASE n = <<"a", ".", "t">> -> 0 [] n = <<"a", ".", "T">> -> 1
      [] n = <<"R">> -> 2 [] n = <<".", "b">> -> 3 [] n = <<"a", ".">> -> 4
      [] OTHER -> 5

Rank(x) ==
    (((KindRank(x.kind) * 5 + FaultRank(x.fault)) * 6 + NameRank(x.name)) * 4
      + RankIn(Mtimes, x.mtime)) * 3 + x.size

Place(x, p) ==
    [parent |-> p, kind |-> x.kind, size |-> x.size, mtime |-> x.mtime,
     name |-> x.name, fault |-> x.fault]

\* The entries that may follow the entries of t: the parent is the root or
\* an earlier directory; entries are numbered parent by
\* parent and siblings by rank, which lists every tree up to renaming.
Extensions(t, P) ==
    LET n == Len(t)
        lastParent == IF n = 0 THEN 0 ELSE t[n].parent
        parents == {0} \cup {j \in 1..n : t[j].kind = "dir"}
    IN  {Place(x, p) : x \in P, p \in {q \in parents : q >= lastParent}}
        \ {e \in {Place(x, lastParent) : x \in P} : n > 0 /\ Rank(e) < Rank(t[n])}

RECURSIVE TreesOfLen(_, _)
TreesOfLen(n, P) ==
    IF n = 0 THEN {<<>>}
    ELSE {Append(t, e) : <<t, e>> \in
            UNION {{<<u, x>> : x \in Extensions(u, P)} : u \in TreesOfLen(n - 1, P)}}

\* The trees of at most n entries over the profiles P.
Trees(P, n) == UNION {TreesOfLen(k, P) : k \in 0..n}

\* ------------------------------------------------------------------ state
VARIABLES
    tree,            \* the directory tree under the root: a sequence of entries
    rootExists,      \* path.exists() of line 52
    recursive,       \* argument recursive
    show_subfolders, \* argument show_subfolders
    top_n,           \* argument top_n
    now,             \* the wall clock, datetime.now().timestamp()
    pc,              \* "idle" (before the call), "walk" (in the loop), "done"
    visited,         \* entries the iterator has yielded in this call
    order,           \* the order in which the file system lists the entries
    stats,           \* the stats dict of lines 55-71
    oldest_time,     \* line 73
    newest_time,     \* line 74
    largest_size,    \* line 75
    result,          \* the value the call returned
    error_printed,   \* the call printed 'Error accessing ...' (line 131)
    prev,            \* the value the previous call returned
    runs             \* number of calls started

\* The state of find_large_files (src/main.py).
VARIABLES
    min_size_mb,     \* argument min_size_mb
    max_results,     \* argument max_results
    exclude_dirs,    \* argument exclude_dirs: None or a set of names
    fpc,             \* "idle", "walk" (lines 38-59), "sort" (after the
                     \* try statement), "done", "raised"
    walk_dir,        \* the directory os.walk has yielded last (0: the root)
    entered,         \* the directories os.walk has yielded
    examined,        \* the entries of 'files' the inner loop has taken
    large_files,     \* the list of line 33: pairs <<entry, size>>
    interrupted,     \* 'Search interrupted by user.' was printed (line 61)
    found            \* the list the call returned

finderVars == <<min_size_mb, max_results, exclude_dirs, fpc, walk_dir, entered,
                examined, large_files, interrupted, found>>

\* The state of the application inventory
\* (src/application_storage_analyzer.py).
VARIABLES
    folder_exists,   \* folder.exists() of line 205
    items,           \* the entries of the folder in the order of iterdir()
    library,         \* the folders under ~/Library/Application Support
                     \* ("data") and ~/Library/Caches ("cache")
    utc_offset,      \* local time minus UTC, in hours
    HAS_CHROME_ANALYZER, \* line 45 or 47
    sort_by,         \* argument sort_by of print_analysis
    top,             \* argument top_n of print_analysis: None or <<n>>
    apc,             \* "idle", "scan" (lines 211-216), "scanned", "printed"
    scanned,         \* number of entries the loop of line 211 has taken
    apps,            \* the list of line 209
    shown,           \* the records print_analysis lists, in order
    printed          \* the messages printed, in order

\* The inventory without the messages, which every program prints.
appState == <<folder_exists, items, library, utc_offset, HAS_CHROME_ANALYZER,
              sort_by, top, apc, scanned, apps, shown>>

appVars == <<appState, printed>>

\* The state of main of the cache analyzer
\* (src/cache_storage_analyzer.py, lines 219-276).
VARIABLES
    paths_to_analyze, \* line 239: the roots, each with its tree
    current,          \* the position of the loop of line 256 in the list
    results,          \* line 254: pairs <<position of the path, stats>>
    total_size,       \* line 253
    mpc,              \* "idle", "loop" (lines 256-265), "report", "done"
    reported          \* the positions print_stats was called for, in order

mainVars == <<paths_to_analyze, current, results, total_size, mpc, reported>>

\* The variables of the programs other than analyze_directory.
otherVars == <<finderVars, appVars, mainVars>>

cacheVars == <<tree, rootExists, recursive, show_subfolders, top_n, now, pc,
               visited, order, stats, oldest_time, newest_time, largest_size,
               result, error_printed, prev, runs>>

vars == <<cacheVars, otherVars>>

inputs == <<tree, rootExists, recursive, show_subfolders, top_n>>

Ids == DOMAIN tree

Children(p) == {i \in Ids : tree[i].parent = p}

\* The entries below p that a recursive glob from p yields: '**' descends
\* into directories but not into links to directories.
RECURSIVE Below(_)
Below(p) ==
    Children(p) \cup
    UNION {Below(c) : c \in {d \in Children(p) : tree[d].kind = "dir"}}

\* Lines 78-81 with glob('*') on both branches.
WalkDomainFlat == Children(0)

\* Lines 78-81: path.rglob('*') or path.glob('*').
WalkDomain == IF recursive THEN Below(0) ELSE Children(0)

\* The sum of the sizes of the entries of S.
RECURSIVE SumSizes(_)
SumSizes(S) ==
    IF S = {} THEN 0
    ELSE LET x == CHOOSE y \in S : TRUE IN tree[x].size + SumSizes(S \ {x})

\* Lines 55-71.
InitStats ==
    [total_size |-> 0, file_count |-> 0, folder_count |-> 0,
     oldest_file |-> None, newest_file |-> None, largest_file |-> None,
     file_types |-> <<>>,
     age_distribution |-> [l \in AgeLabels |-> 0],
     subfolders |-> <<>>]

\* Lines 23-30: the age in seconds (the division by 86400 is applied by the
\* comparisons of AgeBucket); 0 when getmtime raises.
get_file_age(e, t) == IF e.fault = "getmtime" THEN 0 ELSE t - e.mtime

\* Lines 113-122, with age_days <= d written as age <= d * 86400.
AgeBucket(age) ==
    IF age <= 7 * SecondsPerDay THEN "0-7 days"
    ELSE IF age <= 30 * SecondsPerDay THEN "7-30 days"
    ELSE IF age <= 90 * SecondsPerDay THEN "30-90 days"
    ELSE IF age <= 365 * SecondsPerDay THEN "90-365 days"
    ELSE "1+ years"

\* Line 88 with = for +=.
AddSizeOverwrite(total, size) == size

\* Line 88: stats['total_size'] += size
AddSize(total, size) == total + size

\* Lines 108-109 on the defaultdict of line 62.
CountType(ft, ext, size) ==
    LET old == IF ext \in DOMAIN ft THEN ft[ext] ELSE [count |-> 0, size |-> 0]
    IN  (ext :> [count |-> old.count + 1, size |-> old.size + size]) @@ ft

\* Lines 86-122 for an entry whose is_file() returned True: a is the
\* accumulator (stats, oldest_time, newest_time, largest_size), i the entry,
\* t the clock.  A raising call leaves what was assigned before it.
VisitFile(a, i, t) ==
    LET e  == tree[i]
        s1 == [a.stats EXCEPT !.file_count = @ + 1]
        s2 == [s1 EXCEPT !.total_size = AddSize(@, e.size)]
        isOldest  == e.mtime < a.oldest_time
        isNewest  == e.mtime > a.newest_time
        isLargest == e.size > a.largest_size
        s3 == [s2 EXCEPT
                 !.oldest_file  = IF isOldest THEN <<i, e.mtime>> ELSE @,
                 !.newest_file  = IF isNewest THEN <<i, e.mtime>> ELSE @,
                 !.largest_file = IF isLargest THEN <<i, e.size>> ELSE @,
                 !.file_types   = CountType(@, ExtOf(e.name), e.size),
                 !.age_distribution[AgeBucket(get_file_age(e, t))] = @ + 1]
    IN  IF e.fault = "stat_size" THEN [a EXCEPT !.stats = s1]
        ELSE IF e.fault = "stat_mtime" THEN [a EXCEPT !.stats = s2]
        ELSE [stats |-> s3,
              oldest_time  |-> IF isOldest THEN e.mtime ELSE a.oldest_time,
              newest_time  |-> IF isNewest THEN e.mtime ELSE a.newest_time,
              largest_size |-> IF isLargest THEN e.size ELSE a.largest_size]

\* Lines 84-128: one iteration of the loop.
VisitEntry(a, i, t) ==
    LET e == tree[i]
    IN  IF e.fault = "type" THEN a
        ELSE IF IsFileLike(e) THEN VisitFile(a, i, t)
        ELSE IF IsDirLike(e) THEN [a EXCEPT !.stats.folder_count = @ + 1]
        ELSE a

\* Line 141 with path for item: every subfolder gets the size of the root.
get_directory_sizeOfRoot(d) ==
    SumSizes({i \in Below(0) :
                IsFileLike(tree[i]) /\ tree[i].fault \notin {"type", "stat_size"}})

\* Lines 33-45: the sum of the sizes of the files below d whose is_file()
\* and stat() do not raise.
get_directory_size(d) ==
    IF tree[d].kind = "symdir" THEN tree[d].size
    ELSE SumSizes({i \in Below(d) :
                     IsFileLike(tree[i]) /\ tree[i].fault \notin {"type", "stat_size"}})

\* Lines 138-147: the scan of the immediate children in listing order; an
\* is_dir() that raises is caught outside the loop (line 146) and ends it.
RECURSIVE ScanSubfolders(_)
ScanSubfolders(seq) ==
    IF seq = <<>> THEN <<>>
    ELSE LET i == Head(seq)
         IN  IF tree[i].fault = "type" THEN <<>>
             ELSE IF IsDirLike(tree[i]) /\ get_directory_size(i) > 0
                  THEN <<<<i, get_directory_size(i)>>>> \o ScanSubfolders(Tail(seq))
                  ELSE ScanSubfolders(Tail(seq))

\* sorted(..., key=lambda x: x[1], reverse=True): stable, largest first.
RECURSIVE InsertDesc(_, _)
InsertDesc(x, s) ==
    IF s = <<>> THEN <<x>>
    ELSE IF Head(s)[2] >= x[2] THEN <<Head(s)>> \o InsertDesc(x, Tail(s))
    ELSE <<x>> \o s

\* The sort of line 150 without reverse=True: stable, smallest first.
RECURSIVE InsertAsc(_, _)
InsertAsc(x, s) ==
    IF s = <<>> THEN <<x>>
    ELSE IF Head(s)[2] <= x[2] THEN <<Head(s)>> \o InsertAsc(x, Tail(s))
    ELSE <<x>> \o s

RECURSIVE SortAsc(_)
SortAsc(s) ==
    IF s = <<>> THEN <<>>
    ELSE InsertAsc(s[Len(s)], SortAsc(SubSeq(s, 1, Len(s) - 1)))

RECURSIVE SortDesc(_)
SortDesc(s) ==
    IF s = <<>> THEN <<>>
    ELSE InsertDesc(s[Len(s)], SortDesc(SubSeq(s, 1, Len(s) - 1)))

\* The slice [:n] of lines 150-152; a negative n counts from the end.
SliceTo(s, n) ==
    IF n >= 0 THEN SubSeq(s, 1, Min2(n, Len(s)))
    ELSE SubSeq(s, 1, IF Len(s) + n > 0 THEN Len(s) + n ELSE 0)

\* The listing order of the root's children (path.iterdir(), line 138).
RootListing == SelectSeq(order, LAMBDA i : tree[i].parent = 0)

\* Lines 135-153.
Subfolders ==
    IF show_subfolders
    THEN SliceTo(SortDesc(ScanSubfolders(RootListing)), top_n)
    ELSE <<>>

\* --------------------------------------------------------------- actions
\* Start without the test of line 52: a missing root is walked like an
\* empty directory.
StartWithoutExistsCheck ==
    /\ pc = "idle"
    /\ stats' = InitStats
    /\ oldest_time' = now
    /\ newest_time' = 0
    /\ largest_size' = 0
    /\ visited' = {}
    /\ result' = None
    /\ pc' = "walk"
    /\ error_printed' = FALSE
    /\ UNCHANGED otherVars
    /\ UNCHANGED <<inputs, now, order, prev, runs>>

\* Start with the stats dict of lines 55-71 kept from the previous call.
StartKeepingStats ==
    /\ pc = "idle"
    /\ IF ~rootExists
       THEN /\ result' = None
            /\ pc' = "done"
            /\ UNCHANGED <<visited, stats, oldest_time, newest_time, largest_size>>
       ELSE /\ stats' = IF runs = 1 THEN InitStats ELSE stats
            /\ oldest_time' = now
            /\ newest_time' = 0
            /\ largest_size' = 0
            /\ visited' = {}
            /\ result' = None
            /\ pc' = "walk"
    /\ error_printed' = FALSE
    /\ UNCHANGED otherVars
    /\ UNCHANGED <<inputs, now, order, prev, runs>>

\* Lines 50-81: the call starts.
Start ==
    /\ pc = "idle"
    /\ IF ~rootExists
       THEN /\ result' = None
            /\ pc' = "done"
            /\ UNCHANGED <<visited, stats, oldest_time, newest_time, largest_size>>
       ELSE /\ stats' = InitStats
            /\ oldest_time' = now
            /\ newest_time' = 0
            /\ largest_size' = 0
            /\ visited' = {}
            /\ result' = None
            /\ pc' = "walk"
    /\ error_printed' = FALSE
    /\ UNCHANGED otherVars
    /\ UNCHANGED <<inputs, now, order, prev, runs>>

\* Lines 83-128: the iterator yields entry i.  An unchanged directory is
\* listed in the order of the previous call.
Visit(i) ==
    /\ pc = "walk"
    /\ i \in WalkDomain \ visited
    /\ Cardinality(visited) < Len(order) => i = order[Cardinality(visited) + 1]
    /\ order' = IF Cardinality(visited) < Len(order) THEN order ELSE Append(order, i)
    /\ visited' = visited \cup {i}
    /\ LET a == VisitEntry([stats |-> stats, oldest_time |-> oldest_time,
                            newest_time |-> newest_time,
                            largest_size |-> largest_size], i, now)
       IN  /\ stats' = a.stats
           /\ oldest_time' = a.oldest_time
           /\ newest_time' = a.newest_time
           /\ largest_size' = a.largest_size
    /\ UNCHANGED otherVars
    /\ UNCHANGED <<inputs, now, pc, result, error_printed, prev, runs>>

\* Lines 130-132: the enumeration raises an OSError that pathlib lets through.
WalkFails ==
    /\ pc = "walk"
    /\ error_printed' = TRUE
    /\ printed' = Append(printed, "Error accessing")
    /\ result' = None
    /\ pc' = "done"
    /\ UNCHANGED <<finderVars, appState, mainVars>>
    /\ UNCHANGED <<inputs, now, visited, order, stats, oldest_time, newest_time,
                   largest_size, prev, runs>>

\* Lines 134-155: the iterator is exhausted; subfolders, return stats.
Finish ==
    /\ pc = "walk"
    /\ visited = WalkDomain
    /\ result' = <<[stats EXCEPT !.subfolders = Subfolders]>>
    /\ pc' = "done"
    /\ UNCHANGED otherVars
    /\ UNCHANGED <<inputs, now, visited, order, stats, oldest_time, newest_time,
                   largest_size, error_printed, prev, runs>>

\* The caller runs the analysis a second time with the same arguments.
Rerun ==
    /\ pc = "done"
    /\ runs = 1
    /\ prev' = result
    /\ runs' = runs + 1
    /\ pc' = "idle"
    /\ UNCHANGED otherVars
    /\ UNCHANGED <<inputs, now, visited, order, stats, oldest_time, newest_time,
                   largest_size, result, error_printed>>

\* The wall clock advances by one second.  Only a call reads the clock, so
\* the ticks after a call has returned are those before the next one starts.
Tick ==
    /\ pc # "done"
    /\ now < Now0 + MaxTicks
    /\ now' = now + 1
    /\ UNCHANGED otherVars
    /\ UNCHANGED <<inputs, pc, visited, order, stats, oldest_time, newest_time,
                   largest_size, result, error_printed, prev, runs>>

\* One call.
Next ==
    \/ Start
    \/ \E i \in Ids : Visit(i)
    \/ WalkFails
    \/ Finish

\* Two calls while the clock advances.
NextTwice ==
    \/ Next
    \/ Rerun
    \/ Tick

\* --------------------------------------------------------- specifications
\* main of the cache analyzer is not running.
MainIdle ==
    /\ paths_to_analyze = <<>>
    /\ current = 1
    /\ results = <<>>
    /\ total_size = 0
    /\ mpc = "idle"
    /\ reported = <<>>

\* The application inventory has not been called.
AppIdle ==
    /\ folder_exists = FALSE
    /\ items = <<>>
    /\ library = <<>>
    /\ utc_offset = 0
    /\ HAS_CHROME_ANALYZER = TRUE
    /\ sort_by = "size"
    /\ top = None
    /\ apc = "idle"
    /\ scanned = 0
    /\ apps = <<>>
    /\ shown = <<>>
    /\ printed = <<>>

\* find_large_files has not been called.
FinderIdle ==
    /\ min_size_mb = MinSizeDefault
    /\ max_results = MaxResultsDefault
    /\ exclude_dirs = None
    /\ fpc = "idle"
    /\ walk_dir = 0
    /\ entered = {}
    /\ examined = {}
    /\ large_files = <<>>
    /\ interrupted = FALSE
    /\ found = None

\* The state before the first call: a tree of T, the arguments from recs,
\* shows and tops (top_n keeps its default when show_subfolders is off).
InitWith(T, recs, shows, tops) ==
    /\ tree \in T
    /\ rootExists \in BOOLEAN
    /\ ~rootExists => tree = <<>>
    /\ recursive \in recs
    /\ show_subfolders \in shows
    /\ top_n \in IF show_subfolders THEN tops ELSE {TopNDefault}
    /\ now = Now0
    /\ pc = "idle"
    /\ visited = {}
    /\ order = <<>>
    /\ stats = InitStats
    /\ oldest_time = 0
    /\ newest_time = 0
    /\ largest_size = 0
    /\ result = None
    /\ error_printed = FALSE
    /\ prev = None
    /\ runs = 1
    /\ FinderIdle
    /\ AppIdle
    /\ MainIdle

\* One call, every kind of entry; type-check faults only.
Init ==
    InitWith(Trees(Profiles({"file", "dir", "other"}, {0, 1}, {MtimeDefault},
                            {NameDefault}, {"none", "type"})
                   \cup Profiles({"symfile", "symdir"}, {1}, {MtimeDefault},
                                 {NameDefault}, {"none", "type"}),
                   MaxEntries),
             BOOLEAN, {FALSE}, {TopNDefault})

Spec == Init /\ [][Next]_vars

\* One recursive call with show_subfolders: directories, links to
\* directories, files.
InitSub ==
    InitWith(Trees(Profiles({"file", "dir"}, {1}, {MtimeDefault},
                            {NameDefault}, {"none", "type"})
                   \cup Profiles({"symdir"}, {1, 2}, {MtimeDefault},
                                 {NameDefault}, {"none", "type"}),
                   MaxEntries),
             {TRUE}, {TRUE}, TopNs)

SpecSub == InitSub /\ [][Next]_vars

\* One call, files and directories with every fault.
InitFault ==
    InitWith(Trees(Profiles({"file", "dir"}, {1}, {MtimeDefault}, {NameDefault},
                            Faults), MaxEntries),
             BOOLEAN, {FALSE}, {TopNDefault})

SpecFault == InitFault /\ [][Next]_vars

\* One call, files with every name.
InitExt ==
    InitWith(Trees(Profiles({"file"}, {1, 2}, {MtimeDefault}, Names, {"none"}),
                   MaxEntries),
             {TRUE}, {FALSE}, {TopNDefault})

SpecExt == InitExt /\ [][Next]_vars

\* One call, files that differ in size, age and name.
InitMix ==
    InitWith(Trees(Profiles({"file", "dir"}, {1, 2}, {MtimeEdge, MtimeDefault},
                            {NameDefault, <<"R">>}, {"none"}), MaxEntries),
             BOOLEAN, {FALSE}, {TopNDefault})

SpecMix == InitMix /\ [][Next]_vars

\* Two calls while the clock advances: files and directories of every age.
InitAge ==
    InitWith(Trees(Profiles({"file", "dir"}, {1}, Mtimes \ {MtimeDefault},
                            {NameDefault}, {"none"}), MaxEntries),
             {TRUE}, {TRUE}, {TopNDefault})

SpecAge == InitAge /\ [][NextTwice]_vars

\* Modification times exactly 7, 30, 90 and 365 days before the start: the
\* upper edges of the first four age buckets, passed by one tick.
EdgeMtimes == {Now0 - d * SecondsPerDay : d \in {7, 30, 90, 365}}

\* One call while the clock advances.
NextClock ==
    \/ Next
    \/ Tick

\* One recursive call while the clock advances: files on the edges of the
\* age buckets, some with a stat() that raises.
InitBucket ==
    InitWith(Trees(Profiles({"file"}, {1}, EdgeMtimes, {NameDefault},
                            {"none", "stat_size"}), MaxEntries),
             {TRUE}, {FALSE}, {TopNDefault})

SpecBucket == InitBucket /\ [][NextClock]_vars

\* One recursive call: files of size 0 and more, modified at the epoch,
\* before the call and at the very second the call starts.
InitCand ==
    InitWith(Trees(Profiles({"file"}, {0, 1, 2},
                            {MtimeEpoch, MtimeDefault, MtimeStart},
                            {NameDefault}, {"none"}), MaxEntries),
             {TRUE}, {FALSE}, {TopNDefault})

SpecCand == InitCand /\ [][Next]_vars

\* One call with show_subfolders, recursive or not: files, directories and
\* links to directories; a type check or the second stat() may raise.
InitSum ==
    InitWith(Trees(Profiles({"file"}, {1}, {MtimeDefault}, {NameDefault},
                            {"none", "stat_mtime"})
                   \cup Profiles({"dir", "symdir"}, {1}, {MtimeDefault},
                                 {NameDefault}, {"none", "type"}),
                   MaxEntries),
             BOOLEAN, {TRUE}, {TopNDefault})

SpecSum == InitSum /\ [][Next]_vars

\* ------------------------------------------------- the large-file finder
\* src/main.py, find_large_files.  The faults of an entry here: "getsize"
\* (os.path.getsize raises OSError, caught at line 56) and, for a
\* directory, "list" (os.scandir raises inside os.walk, which then yields
\* nothing for it).
FinderProfiles(sizes, faults, dirnames, dirfaults, kinds) ==
    [kind : kinds \cap {"file"}, size : sizes, mtime : {MtimeDefault},
     name : {NameDefault}, fault : faults]
    \cup
    [kind : kinds \cap {"symfile"}, size : {2 * BytesPerMB},
     mtime : {MtimeDefault}, name : {NameDefault}, fault : {"none"}]
    \cup
    [kind : kinds \cap {"other"}, size : {0}, mtime : {MtimeDefault},
     name : {<<"o">>}, fault : {"none"}]
    \cup
    [kind : kinds \cap {"dir"}, size : {0}, mtime : {MtimeDefault},
     name : dirnames, fault : dirfaults]
    \cup
    [kind : kinds \cap {"symdir"}, size : {2 * BytesPerMB},
     mtime : {MtimeDefault}, name : {<<"node_modules">>}, fault : {"none"}]

\* Line 32.
min_size_bytes == min_size_mb * BytesPerMB

\* The exclusion list in force after lines 29-30.
Excluded == IF exclude_dirs = None THEN DefaultExcludes ELSE exclude_dirs[1]

\* os.walk puts an entry into 'dirs' when is_dir() is true of it (links are
\* followed) and into 'files' otherwise.
InDirs(i) == tree[i].kind \in {"dir", "symdir"}

\* Line 41 without the filter: every name of 'dirs' is kept.
KeptDirsUnpruned(p) == {d \in Children(p) : InDirs(d)}

\* Line 41: the names of 'dirs' that are not in exclude_dirs.
KeptDirs(p) == {d \in Children(p) : InDirs(d) /\ tree[d].name \notin Excluded}

\* The directories of 'dirs' that os.walk goes on to yield: not a link
\* (followlinks is off) and listable.
WalkedDirs(p) ==
    {d \in KeptDirs(p) : tree[d].kind = "dir" /\ tree[d].fault # "list"}

\* The 'files' list os.walk yields with directory p.
FilesOf(p) == {i \in Children(p) : ~InDirs(i)}

\* The directory os.walk yields after p is done: depth first, the
\* children of p before the remaining children of its ancestors.
RECURSIVE NextDirs(_)
NextDirs(p) ==
    LET U == WalkedDirs(p) \ entered
    IN  IF U # {} THEN U
        ELSE IF p = 0 THEN {}
        ELSE NextDirs(tree[p].parent)

\* Lines 48-54 without the test of line 48.
ExamineFollowingLinks(i) ==
    IF tree[i].fault = "getsize" THEN large_files
    ELSE IF tree[i].size >= min_size_bytes
         THEN Append(large_files, <<i, tree[i].size>>)
         ELSE large_files

\* Lines 44-58: the list after the iteration for entry i of 'files'.
Examine(i) ==
    IF tree[i].kind = "symfile" THEN large_files
    ELSE IF tree[i].fault = "getsize" THEN large_files
    ELSE IF tree[i].size >= min_size_bytes
         THEN Append(large_files, <<i, tree[i].size>>)
         ELSE large_files

\* Lines 29-39: the call starts; os.walk yields the root if it can be listed.
FindStart ==
    /\ fpc = "idle"
    /\ exclude_dirs' = <<Excluded>>
    /\ large_files' = <<>>
    /\ walk_dir' = 0
    /\ entered' = IF rootExists THEN {0} ELSE {}
    /\ examined' = {}
    /\ fpc' = IF rootExists THEN "walk" ELSE "sort"
    /\ UNCHANGED <<min_size_mb, max_results, interrupted, found>>
    /\ UNCHANGED <<cacheVars, appVars, mainVars>>

\* Lines 43-58: one iteration of the inner loop.
ExamineFile(i) ==
    /\ fpc = "walk"
    /\ i \in FilesOf(walk_dir) \ examined
    /\ examined' = examined \cup {i}
    /\ large_files' = Examine(i)
    /\ UNCHANGED <<min_size_mb, max_results, exclude_dirs, fpc, walk_dir,
                   entered, interrupted, found>>
    /\ UNCHANGED <<cacheVars, appVars, mainVars>>

\* Lines 39-41: the inner loop is over and os.walk yields directory d.
EnterDir(d) ==
    /\ fpc = "walk"
    /\ FilesOf(walk_dir) \subseteq examined
    /\ d \in NextDirs(walk_dir)
    /\ walk_dir' = d
    /\ entered' = entered \cup {d}
    /\ UNCHANGED <<min_size_mb, max_results, exclude_dirs, fpc, examined,
                   large_files, interrupted, found>>
    /\ UNCHANGED <<cacheVars, appVars, mainVars>>

\* Line 39: os.walk is exhausted.
EndWalk ==
    /\ fpc = "walk"
    /\ FilesOf(walk_dir) \subseteq examined
    /\ NextDirs(walk_dir) = {}
    /\ fpc' = "sort"
    /\ UNCHANGED <<min_size_mb, max_results, exclude_dirs, walk_dir, entered,
                   examined, large_files, interrupted, found>>
    /\ UNCHANGED <<cacheVars, appVars, mainVars>>

\* A KeyboardInterrupt raised inside the try statement without the handler
\* of lines 60-61: the exception leaves the function.
InterruptUncaught ==
    /\ fpc = "walk"
    /\ interrupted' = TRUE
    /\ fpc' = "raised"
    /\ UNCHANGED <<min_size_mb, max_results, exclude_dirs, walk_dir, entered,
                   examined, large_files, found>>
    /\ UNCHANGED <<cacheVars, appVars, mainVars>>

\* Lines 60-61: a KeyboardInterrupt raised inside the try statement.
Interrupt ==
    /\ fpc = "walk"
    /\ interrupted' = TRUE
    /\ fpc' = "sort"
    /\ UNCHANGED <<min_size_mb, max_results, exclude_dirs, walk_dir, entered,
                   examined, large_files, found>>
    /\ UNCHANGED <<cacheVars, appVars, mainVars>>

\* A KeyboardInterrupt raised after the try statement (lines 61-65): no
\* handler, the exception leaves the function.
InterruptAfterWalk ==
    /\ fpc = "sort"
    /\ fpc' = "raised"
    /\ UNCHANGED <<min_size_mb, max_results, exclude_dirs, walk_dir, entered,
                   examined, large_files, interrupted, found>>
    /\ UNCHANGED <<cacheVars, appVars, mainVars>>

\* Lines 64-65 returning the list unsorted.
FindReturnUnsorted ==
    /\ fpc = "sort"
    /\ found' = <<SliceTo(large_files, max_results)>>
    /\ fpc' = "done"
    /\ UNCHANGED <<min_size_mb, max_results, exclude_dirs, walk_dir, entered,
                   examined, large_files, interrupted>>
    /\ UNCHANGED <<cacheVars, appVars, mainVars>>

\* Lines 64-65: sort, slice, return.
FindReturn ==
    /\ fpc = "sort"
    /\ found' = <<SliceTo(SortDesc(large_files), max_results)>>
    /\ fpc' = "done"
    /\ UNCHANGED <<min_size_mb, max_results, exclude_dirs, walk_dir, entered,
                   examined, large_files, interrupted>>
    /\ UNCHANGED <<cacheVars, appVars, mainVars>>

NextFind ==
    \/ FindStart
    \/ \E i \in Ids : ExamineFile(i)
    \/ \E d \in Ids : EnterDir(d)
    \/ EndWalk
    \/ Interrupt
    \/ InterruptAfterWalk
    \/ FindReturn

\* The analyzer of cache folders has not been called.
CacheIdle ==
    /\ recursive = TRUE
    /\ show_subfolders = FALSE
    /\ top_n = TopNDefault
    /\ now = Now0
    /\ pc = "idle"
    /\ visited = {}
    /\ order = <<>>
    /\ stats = InitStats
    /\ oldest_time = 0
    /\ newest_time = 0
    /\ largest_size = 0
    /\ result = None
    /\ error_printed = FALSE
    /\ prev = None
    /\ runs = 1

\* The state before find_large_files is called on a tree of T.
InitFindWith(T, mins, maxs, excls) ==
    /\ tree \in T
    /\ rootExists \in BOOLEAN
    /\ ~rootExists => tree = <<>>
    /\ CacheIdle
    /\ min_size_mb \in mins
    /\ max_results \in maxs
    /\ exclude_dirs \in excls
    /\ fpc = "idle"
    /\ walk_dir = 0
    /\ entered = {}
    /\ examined = {}
    /\ large_files = <<>>
    /\ interrupted = FALSE
    /\ found = None
    /\ AppIdle
    /\ MainIdle

\* max_results: any integer the command line accepts, here -1..MaxResults
MaxResultsRange == -1..MaxResults

\* Files below, at and above the threshold, with the default exclusions.
InitFind ==
    InitFindWith(Trees(FinderProfiles({BytesPerMB - 1, BytesPerMB, 2 * BytesPerMB},
                                      {"none"}, {<<"src">>}, {"none"},
                                      {"file", "dir", "other"})
                       \cup FinderProfiles({BytesPerMB}, {"getsize"}, {}, {},
                                           {"file"}),
                       MaxEntries),
                 {0, 1}, MaxResultsRange, {None})

SpecFind == InitFind /\ [][NextFind]_vars

\* Directories of several names, links, and every form of the exclusion
\* argument: absent, empty, the defaults with --exclude build.
InitPrune ==
    InitFindWith(Trees(FinderProfiles({2 * BytesPerMB}, {"none"},
                                      {<<"src">>, <<"node_modules">>, <<"build">>},
                                      {"none"},
                                      {"file", "symfile", "dir", "symdir"})
                       \cup FinderProfiles({}, {}, {<<"src">>}, {"list"}, {"dir"}),
                       MaxEntries),
                 {1}, {MaxResultsDefault},
                 {None, <<{}>>, <<DefaultExcludes \cup {<<"build">>}>>})

SpecPrune == InitPrune /\ [][NextFind]_vars

\* ------------------------------------------------ the application inventory
\* src/application_storage_analyzer.py.  Times are in hours here: st_mtime
\* and st_birthtime count from the epoch (UTC); a datetime without a time
\* zone is the number its fields spell.  An optional time is None or <<t>>.

\* Lines 51-57.
APP_FOLDER_MAPPING ==
    [n \in {"Docker", "Figma", "Postman", "Visual Studio Code", "Xmind"} |->
        CASE n = "Docker" ->
                 [data |-> <<"Docker">>, cache |-> <<"com.docker.docker">>]
          [] n = "Figma" ->
                 [data |-> <<"Figma", "figma-desktop">>, cache |-> <<"Figma">>]
          [] n = "Postman" -> [data |-> <<"Postman">>, cache |-> <<"Postman">>]
          [] n = "Visual Studio Code" -> [data |-> <<"Code">>, cache |-> <<"Code">>]
          [] OTHER -> [data |-> <<"Xmind">>, cache |-> <<"Xmind">>]]

\* src/src/apps/chrome.py, lines 16 and 21-26.
ChromeDataFolders == <<"Google/Chrome">>
ChromeCacheFolders ==
    <<"Google", "com.google.GoogleUpdater", "com.google.Keystone",
      "com.google.SoftwareUpdate">>

\* A folder of the library that does not exist.
Absent == [exists |-> FALSE, size |-> 0, mtime |-> 0, fault |-> "none"]

\* The folder at Path.home() / 'Library/Application Support' / name (root
\* "data") or Path.home() / 'Library/Caches' / name (root "cache").  Its
\* fault: "exists" (Path.exists() raises PermissionError), "stat"
\* (Path.stat() raises after exists() returned True) or "none".
Folder(root, name) ==
    IF <<root, name>> \in DOMAIN library THEN library[<<root, name>>] ELSE Absent

\* <<root, name>> for every name of the list.
Under(root, names) == [k \in 1..Len(names) |-> <<root, names[k]>>]

\* datetime.fromtimestamp(t): the local time, without a time zone.
fromtimestamp(t) == t + utc_offset

\* Lines 85-94: the date mdls prints is in UTC; line 88 drops its ' +0000'
\* and strptime reads the rest as a datetime without a time zone.
LastUsedDate(e) ==
    IF e.mdls.ok /\ e.mdls.parses THEN <<e.mdls.utc>> ELSE None

\* Lines 97-108: the folders whose modification time is looked at.
folders_to_check(app_name) ==
    IF app_name \in DOMAIN APP_FOLDER_MAPPING
    THEN Under("data", APP_FOLDER_MAPPING[app_name].data)
         \o Under("cache", APP_FOLDER_MAPPING[app_name].cache)
    ELSE <<<<"data", app_name>>, <<"cache", app_name>>>>

\* Lines 111-119: the latest folder date, or last_opened if none is later.
\* A raising exists() or stat() is passed over (line 118).
RECURSIVE CheckFolders(_, _)
CheckFolders(folders, last_opened) ==
    IF folders = <<>> THEN last_opened
    ELSE LET f == Folder(Head(folders)[1], Head(folders)[2])
             folder_date == fromtimestamp(f.mtime)
         IN  IF f.fault = "none" /\ f.exists
                  /\ (last_opened = None \/ folder_date > last_opened[1])
             THEN CheckFolders(Tail(folders), <<folder_date>>)
             ELSE CheckFolders(Tail(folders), last_opened)

\* Lines 78-121.
get_app_last_opened(e) == CheckFolders(folders_to_check(e.stem), LastUsedDate(e))

\* An exists() of the loop over the folders raises (PermissionError).
ExistsRaises(folders) ==
    \E k \in 1..Len(folders) : Folder(folders[k][1], folders[k][2]).fault = "exists"

\* Lines 175-184 leaving the loop after the first folder of the list.
SizeOfFirstFolder(folders) ==
    IF folders = <<>> THEN 0
    ELSE LET f == Folder(Head(folders)[1], Head(folders)[2])
         IN  IF f.exists THEN f.size ELSE 0

\* The sum of get_directory_size over the folders that exist (lines
\* 175-184; chrome.py lines 46-51 and 56-61).
RECURSIVE SizeOfFolders(_)
SizeOfFolders(folders) ==
    IF folders = <<>> THEN 0
    ELSE LET f == Folder(Head(folders)[1], Head(folders)[2])
         IN  (IF f.exists THEN f.size ELSE 0) + SizeOfFolders(Tail(folders))

\* The folders of the plugin.
ChromeFolders ==
    Under("data", ChromeDataFolders) \o Under("cache", ChromeCacheFolders)

\* chrome.py lines 64-92: the latest modification time of the folders that
\* exist; stat() is guarded (lines 77, 89).
ChromeLastUsed == CheckFolders(ChromeFolders, None)

\* chrome.py lines 137-145: ChromeAnalyzer.analyze(), or None when an
\* exists() in it raises.
ChromeAnalyze ==
    IF ExistsRaises(ChromeFolders) THEN None
    ELSE <<[data_size |-> SizeOfFolders(Under("data", ChromeDataFolders)),
            cache_size |-> SizeOfFolders(Under("cache", ChromeCacheFolders)),
            last_used |-> ChromeLastUsed]>>

\* Lines 69-71 with empty strings for the keys, whatever the manifest.
get_app_info_from_plistBlank(e) ==
    <<[bundle_id |-> "", version |-> "", bundle_name |-> ""]>>

\* Lines 60-75: the keys get_app_info_from_plist returns.  The manifest of
\* an entry is "missing", "bad" (plistlib.load raises), "nokeys" (a
\* dictionary without the three keys) or "full".
get_app_info_from_plist(e) ==
    CASE e.plist = "full" ->
             <<[bundle_id |-> "com.example.app", version |-> "1.0",
                bundle_name |-> "Example"]>>
      [] e.plist = "nokeys" ->
             <<[bundle_id |-> "Unknown", version |-> "Unknown",
                bundle_name |-> e.stem]>>
      [] OTHER -> None

\* Lines 131-142, 146-155: the record before the data and cache sizes.  A
\* key that update() does not add (bundle_name) is the empty string.
BaseInfo(e) ==
    LET plist_info == get_app_info_from_plist(e)
    IN  [name |-> e.stem,
         path |-> <<e.stem, e.suffix>>,
         size |-> e.size,
         data_size |-> 0,
         cache_size |-> 0,
         created |-> <<fromtimestamp(e.birthtime)>>,
         modified |-> <<fromtimestamp(e.mtime)>>,
         last_opened |-> get_app_last_opened(e),
         bundle_id |-> IF plist_info = None THEN "Unknown" ELSE plist_info[1].bundle_id,
         version |-> IF plist_info = None THEN "Unknown" ELSE plist_info[1].version,
         bundle_name |-> IF plist_info = None THEN "" ELSE plist_info[1].bundle_name]

\* Line 166 with the plugin never chosen.
UsePluginNever(app_name) == FALSE

\* Line 166.
UsePlugin(app_name) == app_name = "Google Chrome" /\ HAS_CHROME_ANALYZER

\* Lines 124-198: None or <<app_info>>.  An OSError of lines 146-193 (the
\* stat() of line 149, an exists() of lines 177-192 or of the plugin) is
\* caught at line 195.
analyze_application(e) ==
    IF ~e.is_dir THEN None
    ELSE IF e.fault = "stat" THEN None
    ELSE LET app_info == BaseInfo(e)
             app_name == e.stem
         IN  IF UsePlugin(app_name)
             THEN LET chrome_analysis == ChromeAnalyze
                  IN  IF chrome_analysis = None THEN None
                      ELSE <<[app_info EXCEPT
                                !.data_size = chrome_analysis[1].data_size,
                                !.cache_size = chrome_analysis[1].cache_size,
                                !.last_opened =
                                    IF chrome_analysis[1].last_used # None
                                    THEN chrome_analysis[1].last_used ELSE @]>>
             ELSE IF app_name \in DOMAIN APP_FOLDER_MAPPING
             THEN LET data == Under("data", APP_FOLDER_MAPPING[app_name].data)
                      cache == Under("cache", APP_FOLDER_MAPPING[app_name].cache)
                  IN  IF ExistsRaises(data \o cache) THEN None
                      ELSE <<[app_info EXCEPT
                                !.data_size = @ + SizeOfFolders(data),
                                !.cache_size = @ + SizeOfFolders(cache)]>>
             ELSE IF ExistsRaises(<<<<"data", app_name>>, <<"cache", app_name>>>>)
                  THEN None
                  ELSE <<[app_info EXCEPT
                            !.data_size = SizeOfFolders(<<<<"data", app_name>>>>),
                            !.cache_size = SizeOfFolders(<<<<"cache", app_name>>>>)]>>

\* Line 215 without the test of the size.
KeepAppOfAnySize(app_info) == app_info # None

\* Line 215.
KeepApp(app_info) == app_info # None /\ app_info[1].size > 0

\* str.lower() and the order of strings on the one-letter names A, T, a, t
\* (their ASCII codes); other names are not ordered by the model.
CharCode(c) ==
    CASE c = "A" -> 65 [] c = "T" -> 84 [] c = "a" -> 97 [] c = "t" -> 116
      [] OTHER -> 0

\* datetime.min, before every time of the model.
DatetimeMin == 0 - 24 * 366 * 1970

\* Line 236 without lower().
SortKeyCaseSensitive(x, by) ==
    CASE by = "size" -> x.size
      [] by = "created" -> IF x.created # None THEN x.created[1] ELSE DatetimeMin
      [] by = "modified" -> IF x.modified # None THEN x.modified[1] ELSE DatetimeMin
      [] OTHER -> 0 - CharCode(x.name)

\* Lines 229-236: the key of the sort, such that every sort is descending
\* (line 236 sorts ascending: the key of a name is minus its rank).
SortKey(x, by) ==
    CASE by = "size" -> x.size
      [] by = "created" -> IF x.created # None THEN x.created[1] ELSE DatetimeMin
      [] by = "modified" -> IF x.modified # None THEN x.modified[1] ELSE DatetimeMin
      [] OTHER -> 0 - CharCode(LowerChar(x.name))

\* Lines 229-236: list.sort is stable, also with reverse=True.
SortApps(list, by) ==
    LET keyed == [k \in 1..Len(list) |-> <<list[k], SortKey(list[k], by)>>]
        sorted == SortDesc(keyed)
    IN  [k \in 1..Len(list) |-> sorted[k][1]]

\* Lines 238-239: 'if top_n' is false for None and for 0.
TopOf(list, n) == IF n # None /\ n[1] # 0 THEN SliceTo(list, n[1]) ELSE list

\* Lines 203-209: analyze_applications_folder starts.
ScanStart ==
    /\ apc = "idle"
    /\ apps' = <<>>
    /\ scanned' = 0
    /\ IF folder_exists
       THEN /\ apc' = "scan"
            /\ UNCHANGED printed
       ELSE /\ apc' = "scanned"
            /\ printed' = Append(printed, "Folder not found")
    /\ UNCHANGED <<folder_exists, items, library, utc_offset,
                   HAS_CHROME_ANALYZER, sort_by, top, shown>>
    /\ UNCHANGED <<cacheVars, finderVars, mainVars>>

\* Lines 211-216: one entry of the folder, with the whole of
\* analyze_application for an entry whose suffix is '.app'.
ScanItem ==
    /\ apc = "scan"
    /\ scanned < Len(items)
    /\ scanned' = scanned + 1
    /\ LET item == items[scanned + 1]
           app_info == analyze_application(item)
       IN  apps' = IF item.suffix = ".app" /\ KeepApp(app_info)
                   THEN Append(apps, app_info[1])
                   ELSE apps
    /\ UNCHANGED <<folder_exists, items, library, utc_offset,
                   HAS_CHROME_ANALYZER, sort_by, top, apc, shown, printed>>
    /\ UNCHANGED <<cacheVars, finderVars, mainVars>>

\* Line 218: the folder has no more entries.
ScanReturn ==
    /\ apc = "scan"
    /\ scanned = Len(items)
    /\ apc' = "scanned"
    /\ UNCHANGED <<folder_exists, items, library, utc_offset,
                   HAS_CHROME_ANALYZER, sort_by, top, scanned, apps, shown,
                   printed>>
    /\ UNCHANGED <<cacheVars, finderVars, mainVars>>

\* Lines 221-264: print_analysis sorts the caller's list in place and
\* lists its first top_n records.
PrintAnalysis ==
    /\ apc = "scanned"
    /\ IF apps = <<>>
       THEN /\ printed' = Append(printed, "No applications found.")
            /\ UNCHANGED <<apps, shown>>
       ELSE /\ apps' = SortApps(apps, sort_by)
            /\ shown' = TopOf(SortApps(apps, sort_by), top)
            /\ UNCHANGED printed
    /\ apc' = "printed"
    /\ UNCHANGED <<folder_exists, items, library, utc_offset,
                   HAS_CHROME_ANALYZER, sort_by, top, scanned>>
    /\ UNCHANGED <<cacheVars, finderVars, mainVars>>

\* main of the application inventory (lines 375-386) for one folder.
NextApps ==
    \/ ScanStart
    \/ ScanItem
    \/ ScanReturn
    \/ PrintAnalysis

\* print_analysis alone, on a list of records given by the caller.
NextPrint == PrintAnalysis

\* mdls: no date (an error, a nonzero return code, '(null)'), text that is
\* not a date, or a date.
NoDate == [ok |-> FALSE, parses |-> FALSE, utc |-> 0]
BadDate == [ok |-> TRUE, parses |-> FALSE, utc |-> 0]
DateAt(t) == [ok |-> TRUE, parses |-> TRUE, utc |-> t]

\* The times of the model, in hours.
TimeEarly == 24 * 365
TimeMid == TimeEarly + 1
TimeLate == TimeEarly + 2

\* A bundle: a directory <stem>.app whose files sum to size.
Bundle(stem, size, plist, mdls) ==
    [stem |-> stem, suffix |-> ".app", is_dir |-> TRUE, size |-> size,
     fault |-> "none", birthtime |-> TimeEarly, mtime |-> TimeMid,
     plist |-> plist, mdls |-> mdls]

\* A folder of the library that exists.
FolderOf(size, mtime) ==
    [exists |-> TRUE, size |-> size, mtime |-> mtime, fault |-> "none"]

\* The lists of at most n elements of S.
ListsUpTo(S, n) == UNION {[1..k -> S] : k \in 0..n}

\* The state before the inventory of a folder.
InitAppsWith(exist, I, L, offsets, has, sorts, tops) ==
    /\ tree = <<>>
    /\ rootExists = FALSE
    /\ CacheIdle
    /\ MainIdle
    /\ FinderIdle
    /\ folder_exists \in exist
    /\ items \in I
    /\ ~folder_exists => items = <<>>
    /\ library \in L
    /\ utc_offset \in offsets
    /\ HAS_CHROME_ANALYZER \in has
    /\ sort_by \in sorts
    /\ top \in tops
    /\ apc = "idle"
    /\ scanned = 0
    /\ apps = <<>>
    /\ shown = <<>>
    /\ printed = <<>>

\* What a folder of applications may hold: bundles with and without
\* content and with every state of the manifest, a bundle whose stat()
\* raises, a file named like a bundle, a directory that is not a bundle.
FolderEntries ==
    {Bundle("Notes", s, p, NoDate) :
        s \in {0, 1}, p \in {"missing", "bad", "nokeys", "full"}}
    \cup {[Bundle("Notes", 1, "full", NoDate) EXCEPT !.fault = "stat"],
          [Bundle("Notes", 1, "full", NoDate) EXCEPT !.is_dir = FALSE],
          [Bundle("Notes", 1, "full", NoDate) EXCEPT !.suffix = ""]}

\* The library without the folders of Notes, with them, and with a cache
\* root that may not be searched.
FolderLibraries ==
    {<<>>,
     (<<"data", "Notes">> :> FolderOf(1, TimeMid))
        @@ (<<"cache", "Notes">> :> FolderOf(2, TimeMid)),
     (<<"cache", "Notes">> :> [Absent EXCEPT !.fault = "exists"])}

InitApps ==
    InitAppsWith(BOOLEAN, ListsUpTo(FolderEntries, MaxApps), FolderLibraries,
                 {0}, {TRUE}, {"size"}, {None})

SpecApps == InitApps /\ [][NextApps]_vars

\* One bundle, generic or of the override table, with every answer of
\* mdls and every state of its folders, in UTC and east of it.
LastLibraries(stem) ==
    LET keys == {folders_to_check(stem)[k] : k \in 1..Len(folders_to_check(stem))}
    IN  [keys -> {Absent, FolderOf(1, TimeEarly), FolderOf(1, TimeLate),
                  [FolderOf(1, TimeLate) EXCEPT !.fault = "stat"]}]

InitLast ==
    \E stem \in {"Notes", "Figma"} :
        InitAppsWith({TRUE},
                     {<<Bundle(stem, 1, "full", m)>> :
                         m \in {NoDate, BadDate, DateAt(TimeMid)}},
                     LastLibraries(stem), {0, 2}, {TRUE}, {"size"}, {None})

SpecLast == InitLast /\ [][NextApps]_vars

\* The folders of the override table for the bundle and the folders named
\* after the bundle, each absent or of one of two sizes.
MapLibraries(stem) ==
    LET keys == {folders_to_check(stem)[k] : k \in 1..Len(folders_to_check(stem))}
                \cup {<<"data", stem>>, <<"cache", stem>>}
    IN  [keys -> {Absent, FolderOf(1, TimeMid), FolderOf(2, TimeMid)}]

\* One bundle: of no entry of the override table, of an entry with one
\* folder under each root, of an entry with two data folders.
InitMap ==
    \E stem \in {"Notes", "Docker", "Figma"} :
        InitAppsWith({TRUE}, {<<Bundle(stem, 1, "full", NoDate)>>},
                     MapLibraries(stem), {0}, {TRUE}, {"size"}, {None})

SpecMap == InitMap /\ [][NextApps]_vars

\* Google Chrome with and without the plugin; the folders of the plugin and
\* the folders the generic path would use.
PluginLibraries ==
    [{<<"data", "Google/Chrome">>, <<"cache", "Google">>,
      <<"cache", "com.google.Keystone">>, <<"data", "Google Chrome">>,
      <<"cache", "Google Chrome">>}
        -> {Absent, FolderOf(1, TimeEarly), FolderOf(2, TimeLate)}]

InitPlugin ==
    InitAppsWith({TRUE},
                 {<<Bundle("Google Chrome", 1, "full", m)>> :
                     m \in {NoDate, DateAt(TimeMid)}},
                 PluginLibraries, {0}, BOOLEAN, {"size"}, {None})

SpecPlugin == InitPlugin /\ [][NextApps]_vars

\* A record as analyze_application builds it, for print_analysis.
AppRecord(name, size, created, modified) ==
    [name |-> name, path |-> <<name, ".app">>, size |-> size, data_size |-> 0,
     cache_size |-> 0, created |-> created, modified |-> modified,
     last_opened |-> None, bundle_id |-> "Unknown", version |-> "Unknown",
     bundle_name |-> ""]

PrintRecords ==
    {AppRecord(n, s, t[1], t[2]) :
        n \in {"a", "A", "T"}, s \in {1, 2},
        t \in {<<None, <<TimeLate>>>>, <<<<TimeEarly>>, None>>,
               <<<<TimeLate>>, <<TimeEarly>>>>, <<<<TimeEarly>>, <<TimeEarly>>>>}}

\* top_n of print_analysis: absent, or any integer --top accepts.
Tops == {None} \cup {<<n>> : n \in -1..MaxTopN}

\* print_analysis on the lists of at most MaxApps records.
InitPrint ==
    /\ tree = <<>>
    /\ rootExists = FALSE
    /\ CacheIdle
    /\ MainIdle
    /\ FinderIdle
    /\ folder_exists = TRUE
    /\ items = <<>>
    /\ library = <<>>
    /\ utc_offset = 0
    /\ HAS_CHROME_ANALYZER = TRUE
    /\ sort_by \in {"size", "created", "modified", "name"}
    /\ top \in Tops
    /\ apc = "scanned"
    /\ scanned = 0
    /\ apps \in ListsUpTo(PrintRecords, MaxApps)
    /\ shown = <<>>
    /\ printed = <<>>

SpecPrint == InitPrint /\ [][NextPrint]_vars

\* ------------------------------------------- main of the cache analyzer
\* results.sort(key=lambda x: x[1]['total_size'], reverse=True), line 267.
SortResults(r) ==
    LET keyed == [k \in DOMAIN r |-> <<r[k], r[k][2].total_size>>]
        sorted == SortDesc(keyed)
    IN  [k \in DOMAIN r |-> sorted[k][1]]

\* The loop of line 256 turns to the path at position k.
Turn(k) ==
    /\ current' = k
    /\ tree' = paths_to_analyze[k].tree
    /\ rootExists' = paths_to_analyze[k].exists
    /\ order' = <<>>
    /\ pc' = "idle"

\* Lines 239-256: the list is not empty (line 247), its length is printed
\* and the loop starts with the first path.
MainStart ==
    /\ mpc = "idle"
    /\ paths_to_analyze # <<>>
    /\ printed' = Append(printed, "Analyzing cache locations")
    /\ total_size' = 0
    /\ results' = <<>>
    /\ Turn(1)
    /\ mpc' = "loop"
    /\ UNCHANGED <<paths_to_analyze, reported>>
    /\ UNCHANGED <<recursive, show_subfolders, top_n, now, visited, stats,
                   oldest_time, newest_time, largest_size, result,
                   error_printed, prev, runs>>
    /\ UNCHANGED appState
    /\ UNCHANGED finderVars

\* Lines 262-264 after analyze_directory has returned, then the next
\* iteration of the loop or its end.
Collect ==
    /\ mpc = "loop"
    /\ pc = "done"
    /\ LET keep == result # None /\ result[1].total_size > 0
       IN  /\ results' = IF keep THEN Append(results, <<current, result[1]>>)
                         ELSE results
           /\ total_size' = IF keep THEN total_size + result[1].total_size
                            ELSE total_size
    /\ IF current < Len(paths_to_analyze)
       THEN /\ Turn(current + 1)
            /\ UNCHANGED mpc
       ELSE /\ mpc' = "report"
            /\ UNCHANGED <<current, tree, rootExists, order, pc>>
    /\ UNCHANGED <<paths_to_analyze, reported>>
    /\ UNCHANGED <<recursive, show_subfolders, top_n, now, visited, stats,
                   oldest_time, newest_time, largest_size, result,
                   error_printed, prev, runs>>
    /\ UNCHANGED <<finderVars, appVars>>

\* Lines 267-275: the results are sorted, each is printed by print_stats,
\* and the total follows when there is a result.
Report ==
    /\ mpc = "report"
    /\ results' = SortResults(results)
    /\ reported' = [k \in DOMAIN results |-> SortResults(results)[k][1]]
    /\ printed' = IF results # <<>> THEN Append(printed, "Total Cache Size")
                  ELSE printed
    /\ mpc' = "done"
    /\ UNCHANGED <<paths_to_analyze, current, total_size>>
    /\ UNCHANGED cacheVars
    /\ UNCHANGED appState
    /\ UNCHANGED finderVars

\* The cache analyzer on a list of roots, then the application inventory
\* on a folder.
NextRoots ==
    \/ MainStart
    \/ Next
    \/ Collect
    \/ Report
    \/ (mpc = "done" /\ NextApps)

\* A root given on the command line: missing, or a directory holding at
\* most one file.
RootChoices ==
    {[exists |-> FALSE, tree |-> <<>>]}
    \cup {[exists |-> TRUE, tree |-> t] :
            t \in Trees(Profiles({"file"}, {0, 1, 2}, {MtimeDefault},
                                 {NameDefault}, {"none"}), 1)}

\* The lists of one to MaxRoots roots; a folder of applications that is
\* missing, empty or holds one bundle.
InitRoots ==
    /\ paths_to_analyze \in ListsUpTo(RootChoices, MaxRoots) \ {<<>>}
    /\ current = 1
    /\ results = <<>>
    /\ total_size = 0
    /\ mpc = "idle"
    /\ reported = <<>>
    /\ tree = <<>>
    /\ rootExists = FALSE
    /\ recursive = TRUE
    /\ show_subfolders = FALSE
    /\ top_n = TopNDefault
    /\ now = Now0
    /\ pc = "done"
    /\ visited = {}
    /\ order = <<>>
    /\ stats = InitStats
    /\ oldest_time = 0
    /\ newest_time = 0
    /\ largest_size = 0
    /\ result = None
    /\ error_printed = FALSE
    /\ prev = None
    /\ runs = 1
    /\ FinderIdle
    /\ folder_exists \in BOOLEAN
    /\ items \in ListsUpTo({Bundle("Notes", 1, "full", NoDate)}, 1)
    /\ ~folder_exists => items = <<>>
    /\ library = <<>>
    /\ utc_offset = 0
    /\ HAS_CHROME_ANALYZER = TRUE
    /\ sort_by = "size"
    /\ top = None
    /\ apc = "idle"
    /\ scanned = 0
    /\ apps = <<>>
    /\ shown = <<>>
    /\ printed = <<>>

SpecRoots == InitRoots /\ [][NextRoots]_vars

\* ----------------------------------------------------------------- claims
\* The call has returned a stats record.
Returned == pc = "done" /\ result # None

\* The record the call returned.
R == result[1]

\* The entries in the scope of the call: every depth, or the root's children.
Scope == IF recursive THEN Ids ELSE {i \in Ids : tree[i].parent = 0}

RegularFiles(S) == {i \in S : tree[i].kind = "file"}

\* C1 (as claimed): after a recursive call, total_size is the sum of the sizes
\* of the regular files of the tree whose type check and stat succeed.
C1_TotalIsSumOfRegularFiles ==
    (Returned /\ recursive) =>
        R.total_size =
            SumSizes({i \in RegularFiles(Ids) : tree[i].fault \notin {"type", "stat_size"}})

\* The walk is visiting entry i in this step.
Visiting(i) == pc = "walk" /\ i \notin visited /\ i \in visited'

\* C2 (as claimed): an entry on which the type check or a stat call raises is
\* skipped entirely: visiting it changes no counter and no candidate.
C2_FaultyEntrySkipped ==
    [][\A i \in Ids :
         (Visiting(i) /\ tree[i].fault # "none") =>
             UNCHANGED <<stats, oldest_time, newest_time, largest_size>>]_vars

\* C3 (as claimed): in every returned record the five age counts sum to
\* file_count.
C3_AgeBucketsSumToFileCount ==
    Returned =>
        R.age_distribution["0-7 days"] + R.age_distribution["7-30 days"]
          + R.age_distribution["30-90 days"] + R.age_distribution["90-365 days"]
          + R.age_distribution["1+ years"] = R.file_count

\* C4: a missing root returns None; an existing empty directory whose listing
\* raises nothing returns a record of zeros with no oldest, newest or largest
\* file; the two values differ.
C4_MissingRootVersusEmpty ==
    /\ (pc = "done" /\ ~rootExists) => result = None
    /\ (pc = "done" /\ rootExists /\ tree = <<>> /\ ~error_printed) =>
          /\ result # None
          /\ R.total_size = 0 /\ R.file_count = 0 /\ R.folder_count = 0
          /\ R.oldest_file = None /\ R.newest_file = None /\ R.largest_file = None

C4_Witness == pc = "done" /\ rootExists /\ tree = <<>> /\ result # None

\* C5 (as claimed): visiting a symbolic link or another non-regular,
\* non-directory entry changes no counter and no candidate.
C5_LinksChangeNothing ==
    [][\A i \in Ids :
         (Visiting(i) /\ tree[i].kind \in {"symfile", "symdir", "other"}) =>
             UNCHANGED <<stats, oldest_time, newest_time, largest_size>>]_vars

\* The entries of S that the walk counts as files with their size: is_file()
\* is true and neither the type check nor the first stat raises.
SizedFiles(S) ==
    {i \in S : IsFileLike(tree[i]) /\ tree[i].fault \notin {"type", "stat_size"}}

NonEmptySubdirs ==
    {i \in Ids : tree[i].parent = 0 /\ IsDirLike(tree[i]) /\ get_directory_size(i) > 0}

NonIncreasing(s) == \A j \in 1..(Len(s) - 1) : s[j][2] >= s[j + 1][2]

StrictlyDescending(s) == \A j \in 1..(Len(s) - 1) : s[j][2] > s[j + 1][2]

\* No type check on an immediate child of the root raises.
RootChildrenReadable == \A i \in Ids : tree[i].parent = 0 => tree[i].fault # "type"

\* C7 (as claimed, for a count top_n >= 0 and a scan that meets no error): the
\* subfolders list has min(top_n, number of immediate subdirectories of
\* nonzero size) elements, strictly descending in size.
C7_TopNStrictlyDescending ==
    (Returned /\ show_subfolders /\ top_n >= 0 /\ RootChildrenReadable) =>
        /\ Len(R.subfolders) = Min2(top_n, Cardinality(NonEmptySubdirs))
        /\ StrictlyDescending(R.subfolders)

\* C7 (amended): the list holds distinct immediate subdirectories of nonzero
\* size with their sizes, largest first with equal sizes next to each other;
\* for top_n >= 0 it has at most min(top_n, k) elements, and exactly that
\* many, none smaller than a subdirectory left out, when no type check on an
\* immediate child raises.
C7_TopNNonIncreasing ==
    (Returned /\ show_subfolders) =>
        LET subs == R.subfolders
            k == Cardinality(NonEmptySubdirs)
            listed == {subs[j][1] : j \in 1..Len(subs)}
        IN  /\ NonIncreasing(subs)
            /\ Cardinality(listed) = Len(subs)
            /\ \A j \in 1..Len(subs) :
                  subs[j][1] \in NonEmptySubdirs /\ subs[j][2] = get_directory_size(subs[j][1])
            /\ top_n >= 0 => Len(subs) <= Min2(top_n, k)
            /\ (top_n >= 0 /\ RootChildrenReadable) =>
                  /\ Len(subs) = Min2(top_n, k)
                  /\ \A i \in NonEmptySubdirs \ listed : \A j \in 1..Len(subs) :
                        get_directory_size(i) <= subs[j][2]

\* Two subdirectories of the same size, both listed.
C7_Witness ==
    /\ Returned /\ show_subfolders
    /\ Len(R.subfolders) = 2
    /\ R.subfolders[1][2] = R.subfolders[2][2]

\* Two characters are the same letter in either case.
SameLetter(c, d) == c = d \/ {c, d} \in {{"t", "T"}, {"a", "A"}}

EqualIgnoringCase(s, u) ==
    Len(s) = Len(u) /\ \A k \in 1..Len(s) : SameLetter(s[k], u[k])

\* Two files belong to the same extension: neither has a suffix, or both have
\* and the suffixes differ in letter case at most.
SameExtension(i, j) ==
    LET s == Suffix(tree[i].name)
        u == Suffix(tree[j].name)
    IN  IF s = <<>> \/ u = <<>> THEN s = u ELSE EqualIgnoringCase(s, u)

\* C8: the files of one extension, compared without regard to case, are
\* counted under one key of file_types, and the files without a suffix under
\* "(no extension)".
C8_ExtensionBuckets ==
    Returned =>
        LET files == {i \in Scope : IsFileLike(tree[i]) /\ tree[i].fault = "none"}
            ft == R.file_types
        IN  /\ \A i \in files :
                  LET same == {j \in files : SameExtension(i, j)}
                      s == Suffix(tree[i].name)
                  IN  \E key \in DOMAIN ft :
                        /\ IF s = <<>> THEN key = NoExtension ELSE EqualIgnoringCase(key, s)
                        /\ ft[key].count = Cardinality(same)
                        /\ ft[key].size = SumSizes(same)
            /\ Cardinality(DOMAIN ft) =
                  Cardinality({{j \in files : SameExtension(i, j)} : i \in files})

\* a.t and a.T counted under one key, and a file without a suffix counted.
C8_Witness ==
    /\ Returned
    /\ \E i, j \in Ids : tree[i].name = <<"a", ".", "t">> /\ tree[j].name = <<"a", ".", "T">>
    /\ \E i \in Ids : tree[i].name = <<"R">>
    /\ <<".", "t">> \in DOMAIN R.file_types
    /\ R.file_types[<<".", "t">>].count = 2
    /\ R.file_types[NoExtension].count = 1

\* Both calls have returned a record.
BothReturned == pc = "done" /\ runs = 2 /\ prev # None /\ result # None

\* C9 (as claimed): the second call on the unchanged tree returns the record
\* of the first.
C9_SecondRunIdentical == BothReturned => result = prev

\* C9 (amended): the second call returns the first call's total_size,
\* file_count, folder_count, newest_file, largest_file, file_types and
\* subfolders; age_distribution and oldest_file are left out.
C9_SecondRunSameButClock ==
    BothReturned =>
        /\ R.total_size = prev[1].total_size
        /\ R.file_count = prev[1].file_count
        /\ R.folder_count = prev[1].folder_count
        /\ R.newest_file = prev[1].newest_file
        /\ R.largest_file = prev[1].largest_file
        /\ R.file_types = prev[1].file_types
        /\ R.subfolders = prev[1].subfolders

\* Two calls over a tree with a file and a subfolder; the age counts differ.
C9_Witness ==
    /\ BothReturned
    /\ R.file_count > 0 /\ R.subfolders # <<>>
    /\ R.age_distribution # prev[1].age_distribution

\* Two calls whose oldest_file differ.
C9_OldestFileDiffers == BothReturned /\ R.oldest_file # prev[1].oldest_file

\* The files the walk has counted in full.
CountedFiles(S) == {i \in S : IsFileLike(tree[i]) /\ tree[i].fault \in {"none", "getmtime"}}

Found == fpc = "done" /\ found # None

\* The list find_large_files returned.
F == found[1]

\* The entries the list F names.
FoundIds == {F[k][1] : k \in 1..Len(F)}

\* Every directory between the root and entry i is a directory proper, is
\* listable and has a name outside the exclusion list.
RECURSIVE PathKept(_)
PathKept(i) ==
    LET p == tree[i].parent
    IN  \/ p = 0
        \/ /\ tree[p].kind = "dir"
           /\ tree[p].fault # "list"
           /\ tree[p].name \notin Excluded
           /\ PathKept(p)

\* F lists k entries of C, each once and with its size, largest first, and
\* no entry of C left out is larger than a listed one.
LargestOf(C, k) ==
    /\ Len(F) = k
    /\ NonIncreasing(F)
    /\ FoundIds \subseteq C
    /\ Cardinality(FoundIds) = Len(F)
    /\ \A j \in 1..Len(F) : F[j][2] = tree[F[j][1]].size
    /\ \A c \in C \ FoundIds : \A j \in 1..Len(F) : tree[c].size <= F[j][2]

\* The regular files on a kept path whose size can be read and is at or
\* above the threshold.
RegularCandidates ==
    {i \in Ids : /\ tree[i].kind = "file"
                 /\ PathKept(i)
                 /\ tree[i].fault # "getsize"
                 /\ tree[i].size >= min_size_bytes}

\* The same with the entries that are neither directories nor links: regular
\* files, and pipes, sockets and devices (of size 0).
Candidates ==
    {i \in Ids : /\ tree[i].kind \in {"file", "other"}
                 /\ PathKept(i)
                 /\ tree[i].fault # "getsize"
                 /\ tree[i].size >= min_size_bytes}

\* C11 (as claimed): after an uninterrupted walk with max_results >= 0 the
\* result is exactly the regular files at or above the threshold, largest
\* first, cut to min(max_results, number of candidates).
C11_ExactlyRegularFiles ==
    (Found /\ ~interrupted /\ max_results >= 0) =>
        LargestOf(RegularCandidates,
                  Min2(max_results, Cardinality(RegularCandidates)))

\* C11 (amended): after an uninterrupted walk the result is the largest of
\* the entries that are neither directories nor links (a pipe, socket or
\* device counts, with size 0), lie on a path of kept and listable
\* directories, and have a readable size at or above the threshold
\* (inclusive), in non-increasing order of size; its length is
\* min(max_results, n) for max_results >= 0 and max(n + max_results, 0) for
\* max_results < 0.
C11_LargestCandidates ==
    (Found /\ ~interrupted) =>
        LET n == Cardinality(Candidates)
        IN  LargestOf(Candidates,
                      IF max_results >= 0 THEN Min2(max_results, n)
                      ELSE Max({n + max_results, 0}))

\* A file exactly at the threshold is returned last, after a larger one,
\* while a file one byte below the threshold and a file whose size cannot
\* be read are left out.
C11_Witness ==
    /\ Found /\ ~interrupted
    /\ min_size_mb = 1
    /\ Len(F) = 2
    /\ F[2][2] = min_size_bytes
    /\ F[1][2] > F[2][2]
    /\ \E i \in Ids : tree[i].kind = "file" /\ tree[i].size = min_size_bytes - 1

\* Entry i lies below a directory whose name is in the exclusion list.
RECURSIVE UnderExcluded(_)
UnderExcluded(i) ==
    LET p == tree[i].parent
    IN  p # 0 /\ (tree[p].name \in Excluded \/ UnderExcluded(p))

\* The entries the walk has touched so far: directories it was given,
\* files it examined, files it collected or returned.
Touched ==
    (entered \ {0}) \cup examined
    \cup {large_files[k][1] : k \in 1..Len(large_files)}
    \cup (IF found = None THEN {} ELSE FoundIds)

\* C12: a directory below the root whose name is in the exclusion list is
\* never entered, and no entry below such a directory, at any depth and of
\* any size, is ever examined, collected or returned.
C12_ExcludedNeverVisited ==
    \A i \in Touched :
        /\ ~UnderExcluded(i)
        /\ i \in entered => tree[i].name \notin Excluded

\* The walk has returned, and a file above the threshold lies in an excluded
\* directory that is itself inside a directory the walk entered.
C12_Witness ==
    /\ Found /\ ~interrupted
    /\ \E i \in Ids :
          /\ tree[i].kind = "file" /\ tree[i].size >= min_size_bytes
          /\ tree[i].parent # 0
          /\ tree[tree[i].parent].name \in Excluded
          /\ tree[tree[i].parent].parent \in entered \ {0}
          /\ i \notin FoundIds

\* C13: no symbolic link is ever collected or returned, whatever the size
\* of its target; a link to a directory is never entered.
C13_NoLinkReturned ==
    /\ \A k \in 1..Len(large_files) : tree[large_files[k][1]].kind # "symfile"
    /\ found # None => \A i \in FoundIds : tree[i].kind \notin {"symfile", "symdir"}
    /\ \A d \in entered \ {0} : tree[d].kind # "symdir"

\* The walk has returned a regular file and has examined a link to a file
\* whose target is at or above the threshold.
C13_Witness ==
    /\ Found /\ ~interrupted
    /\ Len(F) > 0
    /\ \E i \in examined :
          /\ tree[i].kind = "symfile"
          /\ tree[i].size >= min_size_bytes
          /\ i \notin FoundIds

\* The candidates among the entries examined so far.
Collected == Candidates \cap examined

\* The length of s[:n] for a list s of length len.
SliceLen(len, n) == IF n >= 0 THEN Min2(n, len) ELSE Max({len + n, 0})

\* A call that was interrupted and has returned gives the candidates
\* examined before the interrupt, largest first, cut by [:max_results].
InterruptedResult ==
    (Found /\ interrupted) =>
        LargestOf(Collected, SliceLen(Cardinality(Collected), max_results))

\* C14: a KeyboardInterrupt raised during the walk is caught: the walk
\* stops (nothing more is examined or entered), no exception leaves the
\* function because of it, and the call still returns the candidates
\* collected so far, sorted descending by size and cut to max_results.
C14_InterruptCaught ==
    [][/\ (fpc = "walk" /\ interrupted') =>
              (fpc' = "sort" /\ large_files' = large_files)
       /\ interrupted =>
              (examined' = examined /\ entered' = entered
               /\ large_files' = large_files)
       /\ InterruptedResult']_vars

\* An interrupted call has returned a file it had collected while a larger
\* candidate was still waiting to be examined.
C14_Witness ==
    /\ Found /\ interrupted
    /\ Len(F) > 0
    /\ \E i \in Candidates \ examined : tree[i].size > F[1][2]

\* ------------------------------------------ claims: application inventory
\* analyze_applications_folder has returned.
Scanned == apc \in {"scanned", "printed"}

\* Entry e is a bundle: a directory with the suffix '.app'.
IsBundle(e) == e.suffix = ".app" /\ e.is_dir

\* The data and cache folders analyze_application looks at for a bundle
\* that has no plugin.
ResolvedFolders(stem) == {folders_to_check(stem)[k] : k \in 1..Len(folders_to_check(stem))}

\* Analysing bundle e raises an OSError: its stat() fails, or a folder of
\* the library cannot be tested for existence.
AnalysisRaises(e) ==
    \/ e.fault = "stat"
    \/ \E f \in ResolvedFolders(e.stem) : Folder(f[1], f[2]).fault = "exists"

\* The sum of the sizes of the folders of S that exist.
RECURSIVE SumFolders(_)
SumFolders(S) ==
    IF S = {} THEN 0
    ELSE LET f == CHOOSE g \in S : TRUE
         IN  (IF Folder(f[1], f[2]).exists THEN Folder(f[1], f[2]).size ELSE 0)
             + SumFolders(S \ {f})

\* The records are those of the entries K of the folder, in its order,
\* each with a size above 0 and with the data and cache sizes of the
\* folders that exist (0 where none does).
RecordsOf(K) ==
    /\ Len(apps) = Cardinality(K)
    /\ \A r \in 1..Len(apps) :
          /\ apps[r].size > 0
          /\ \E k \in K :
                /\ Cardinality({j \in K : j < k}) = r - 1
                /\ apps[r].name = items[k].stem
                /\ apps[r].size = items[k].size
                /\ apps[r].data_size =
                       SumFolders({f \in ResolvedFolders(items[k].stem) : f[1] = "data"})
                /\ apps[r].cache_size =
                       SumFolders({f \in ResolvedFolders(items[k].stem) : f[1] = "cache"})

\* C15 (as claimed): the list holds a record for every bundle of the folder
\* whose size is not 0 and for no other entry.
C15_EveryNonEmptyBundle ==
    apc = "scanned" =>
        RecordsOf({k \in 1..Len(items) : IsBundle(items[k]) /\ items[k].size > 0})

\* C15 (amended): the list holds a record for every bundle of the folder
\* whose size is not 0 and whose analysis raises no OSError, and for no
\* other entry; data_size and cache_size are 0 when no data or cache folder
\* exists; every record has size > 0.
C15_EveryAnalysedNonEmptyBundle ==
    apc = "scanned" =>
        RecordsOf({k \in 1..Len(items) :
                     /\ IsBundle(items[k]) /\ items[k].size > 0
                     /\ ~AnalysisRaises(items[k])})

\* A folder with an empty bundle and a bundle of size 1, no data or cache
\* folder: one record, with data_size = 0 and cache_size = 0.
C15_Witness ==
    /\ apc = "scanned"
    /\ library = <<>>
    /\ \E k \in 1..Len(items) : IsBundle(items[k]) /\ items[k].size = 0
    /\ Len(apps) = 1
    /\ apps[1].size > 0 /\ apps[1].data_size = 0 /\ apps[1].cache_size = 0

\* The instants (hours, UTC) of the sources of a last-used time for bundle
\* e: the date of mdls when it is there and parses, and the modification
\* time of every resolved data or cache folder that exists and can be read.
MetadataInstants(e) == IF LastUsedDate(e) # None THEN {e.mdls.utc} ELSE {}

FolderInstants(e) ==
    {Folder(f[1], f[2]).mtime :
        f \in {g \in ResolvedFolders(e.stem) :
                 Folder(g[1], g[2]).exists /\ Folder(g[1], g[2]).fault = "none"}}

\* The datetimes that stand for the latest of the instants: the date as
\* mdls printed it, or the local time of the folder.
LatestDates(e) ==
    LET all == MetadataInstants(e) \cup FolderInstants(e)
    IN  IF all = {} THEN {None}
        ELSE {<<t>> : t \in {u \in MetadataInstants(e) : u = Max(all)}}
             \cup {<<fromtimestamp(t)>> : t \in {u \in FolderInstants(e) : u = Max(all)}}

\* C16 (as claimed): for a bundle without a plugin the last-used time is
\* that of the latest of its sources, the date of the OS metadata and the
\* modification times of the resolved folders that exist, and None when
\* there is no source.
C16_LastOpenedIsLatest ==
    (Scanned /\ Len(items) = 1 /\ Len(apps) = 1 /\ ~UsePlugin(items[1].stem)) =>
        apps[1].last_opened \in LatestDates(items[1])

\* The entries of the folder that are recorded: the bundles of nonzero size
\* whose analysis raises no OSError.  The manifest plays no part.
Recorded ==
    {k \in 1..Len(items) :
        IsBundle(items[k]) /\ items[k].size > 0 /\ ~AnalysisRaises(items[k])}

\* The entry of the folder that record r of the list stands for.
EntryOf(r) == CHOOSE k \in Recorded : Cardinality({j \in Recorded : j < k}) = r - 1

\* C17: a manifest that is missing or cannot be parsed does not remove the
\* bundle from the list and does not end the scan: every entry of the
\* folder is taken, the recorded bundles are the same whatever their
\* manifests, and the record of a bundle with such a manifest has the
\* name of the file system and 'Unknown' for bundle_id and version.
C17_BadManifestKeepsBundle ==
    apc = "scanned" =>
        /\ folder_exists => scanned = Len(items)
        /\ Len(apps) = Cardinality(Recorded)
        /\ \A r \in 1..Len(apps) :
              items[EntryOf(r)].plist \in {"missing", "bad"} =>
                  /\ apps[r].name = items[EntryOf(r)].stem
                  /\ apps[r].bundle_id = "Unknown"
                  /\ apps[r].version = "Unknown"

\* A bundle whose manifest cannot be parsed is recorded with 'Unknown', and
\* the bundle after it is recorded with what its manifest says.
C17_Witness ==
    /\ apc = "scanned"
    /\ Len(items) = 2 /\ Len(apps) = 2
    /\ items[1].plist = "bad" /\ items[2].plist = "full"
    /\ apps[1].bundle_id = "Unknown" /\ apps[1].version = "Unknown"
    /\ apps[2].bundle_id # "Unknown"

\* ------------------------------------------------- claims: missing roots
\* The positions of the roots of the cache scan that do not exist.
MissingRoots == {k \in DOMAIN paths_to_analyze : ~paths_to_analyze[k].exists}

\* The messages about a path that was not found.
Notices == SelectSeq(printed, LAMBDA m : m = "Folder not found")

\* No walk of the cache scan was ended by an exception.
WalksSucceeded == \A k \in DOMAIN printed : printed[k] # "Error accessing"

\* The roots whose files hold at least one byte, largest first and, among
\* equal sizes, in the order of the command line.
RECURSIVE TreeSize(_)
TreeSize(t) == IF t = <<>> THEN 0 ELSE Head(t).size + TreeSize(Tail(t))

NonEmptyRoots ==
    LET keyed == SelectSeq([k \in DOMAIN paths_to_analyze |->
                               <<k, TreeSize(paths_to_analyze[k].tree)>>],
                           LAMBDA x : x[2] > 0)
        sorted == SortDesc(keyed)
    IN  [k \in DOMAIN sorted |-> sorted[k][1]]

\* C18: a root that does not exist is never an error.  In the cache scan
\* each missing root is reported once as a message and the remaining roots
\* are still analysed and reported; in the application inventory a
\* missing folder yields an empty list and one 'Folder not found' message.
C18_MissingRootReportedOnce ==
    /\ (mpc = "done" /\ WalksSucceeded /\ apc = "idle") =>
          /\ Len(Notices) = Cardinality(MissingRoots)
          /\ reported = NonEmptyRoots
    /\ (mpc = "done" /\ WalksSucceeded /\ apc # "idle" /\ ~folder_exists) =>
          /\ apps = <<>>
          /\ Len(Notices) = Cardinality(MissingRoots) + 1

\* What the code does: the cache scan passes over a missing root without
\* a word, and still reports the other roots.
C18_MissingRootSilent ==
    /\ (mpc = "done" /\ WalksSucceeded /\ apc = "idle") =>
          /\ Len(Notices) = 0
          /\ reported = NonEmptyRoots
    /\ (mpc = "done" /\ WalksSucceeded /\ apc # "idle" /\ ~folder_exists) =>
          /\ apps = <<>>
          /\ Notices = <<"Folder not found">>

\* A scan of a missing root followed by a root with content has ended.
C18_Witness ==
    /\ mpc = "done"
    /\ Len(paths_to_analyze) = 2
    /\ ~paths_to_analyze[1].exists
    /\ reported = <<2>>
    /\ apc = "scanned"
    /\ ~folder_exists

\* ---------------------------------------------- claims: print_analysis
\* The number of places of the list s that hold r.
Occurrences(s, r) == Cardinality({k \in DOMAIN s : s[k] = r})

\* s and t hold the same records the same number of times.
SameRecords(s, t) ==
    /\ Len(s) = Len(t)
    /\ \A k \in DOMAIN s : Occurrences(s, s[k]) = Occurrences(t, s[k])

\* x may stand before y in a list ordered by the key: sizes and times
\* descend, a missing time counting as earlier than every time, and names
\* ascend without regard to case.
MayPrecede(x, y, by) ==
    CASE by = "size" -> x.size >= y.size
      [] by = "created" ->
            y.created = None \/ (x.created # None /\ x.created[1] >= y.created[1])
      [] by = "modified" ->
            y.modified = None \/ (x.modified # None /\ x.modified[1] >= y.modified[1])
      [] OTHER -> CharCode(LowerChar(x.name)) <= CharCode(LowerChar(y.name))

OrderedBy(s, by) ==
    \A k, l \in DOMAIN s : k < l => MayPrecede(s[k], s[l], by)

\* The first n records of s, all of them when s is shorter.
FirstN(s, n) == SubSeq(s, 1, IF n < Len(s) THEN n ELSE Len(s))

\* print_analysis has just listed a list that is not empty.
Listed == apc = "scanned" /\ apc' = "printed" /\ apps # <<>>

\* C19, as claimed: print_analysis orders the records by the selected key,
\* a missing timestamp sorting as the earliest possible one, and truncates
\* after sorting: the N records shown are the first N of the sorted list.
C19_FirstNOfSorted ==
    [][Listed =>
          /\ SameRecords(apps', apps)
          /\ OrderedBy(apps', sort_by)
          /\ top = None => shown' = apps'
          /\ (top # None /\ top[1] >= 0) => shown' = FirstN(apps', top[1])]_vars

\* C19, amended: as claimed for N >= 1; --top 0 shows every record, like
\* an absent --top, and a negative N drops the last -N records of the
\* sorted list.
C19_SortedThenTruncated ==
    [][Listed =>
          /\ SameRecords(apps', apps)
          /\ OrderedBy(apps', sort_by)
          /\ (top = None \/ top = <<0>>) => shown' = apps'
          /\ (top # None /\ top[1] >= 1) => shown' = FirstN(apps', top[1])
          /\ (top # None /\ top[1] < 0) =>
                shown' = SubSeq(apps', 1, IF Len(apps') + top[1] > 0
                                          THEN Len(apps') + top[1] ELSE 0)]_vars

\* Two records listed by creation time, the second without one, of which
\* the first alone is shown.
C19_Witness ==
    /\ apc = "printed"
    /\ sort_by = "created"
    /\ top = <<1>>
    /\ Len(apps) = 2
    /\ apps[1].created # None
    /\ apps[2].created = None
    /\ shown = <<apps[1]>>

\* -------------------------------------------------- claims: the plugin
\* The folders ChromeAnalyzer looks at (chrome.py lines 16, 21-26).
PluginFolders ==
    {<<"data", "Google/Chrome">>, <<"cache", "Google">>,
     <<"cache", "com.google.GoogleUpdater">>, <<"cache", "com.google.Keystone">>,
     <<"cache", "com.google.SoftwareUpdate">>}

\* The latest local modification time of the plugin's folders that exist,
\* None when none exists.
PluginLastUsed ==
    LET times == {fromtimestamp(Folder(f[1], f[2]).mtime) :
                    f \in {g \in PluginFolders : Folder(g[1], g[2]).exists}}
    IN  IF times = {} THEN None ELSE <<Max(times)>>

\* The bundle of Google Chrome has been analysed with the plugin at hand,
\* and its record is the one of the list.
ChromeRecorded ==
    /\ apc # "idle"
    /\ scanned = 1
    /\ items[1].stem = "Google Chrome"
    /\ HAS_CHROME_ANALYZER
    /\ Len(apps) = 1

\* The sizes are those of the plugin's folders.
PluginSizes ==
    /\ apps[1].data_size = SumFolders({f \in PluginFolders : f[1] = "data"})
    /\ apps[1].cache_size = SumFolders({f \in PluginFolders : f[1] = "cache"})

\* C20, as claimed: for Google Chrome with the plugin available,
\* analyze_application takes data_size, cache_size and the last-used time
\* from the plugin's result instead of the generic computation.
C20_PluginReplacesGeneric ==
    ChromeRecorded => PluginSizes /\ apps[1].last_opened = PluginLastUsed

\* C20, amended: the sizes are the plugin's; the last-used time is the
\* plugin's when the plugin found one, and otherwise stays what
\* get_app_last_opened returned.
C20_PluginSizesAndLastUsed ==
    ChromeRecorded =>
        /\ PluginSizes
        /\ apps[1].last_opened =
              IF PluginLastUsed # None THEN PluginLastUsed
              ELSE get_app_last_opened(items[1])

\* The plugin's folders and the folders named after the bundle both exist
\* with different sizes, and the plugin's folders are the older ones.
C20_Witness ==
    /\ ChromeRecorded
    /\ Folder("data", "Google/Chrome").exists
    /\ Folder("data", "Google Chrome").exists
    /\ Folder("data", "Google/Chrome").size # Folder("data", "Google Chrome").size
    /\ apps[1].data_size = Folder("data", "Google/Chrome").size
    /\ apps[1].last_opened = <<TimeEarly>>
    /\ get_app_last_opened(items[1]) = <<TimeLate>>

\* ------------------------------------------------ claims: the age buckets
\* The bucket of an age in seconds, by the edges of the claim: each bucket
\* includes its upper edge.
BucketOfAge(age) ==
    CHOOSE l \in AgeLabels :
        \/ l = "0-7 days" /\ age <= 7 * SecondsPerDay
        \/ l = "7-30 days" /\ 7 * SecondsPerDay < age /\ age <= 30 * SecondsPerDay
        \/ l = "30-90 days" /\ 30 * SecondsPerDay < age /\ age <= 90 * SecondsPerDay
        \/ l = "90-365 days" /\ 90 * SecondsPerDay < age /\ age <= 365 * SecondsPerDay
        \/ l = "1+ years" /\ 365 * SecondsPerDay < age

\* The visit of entry i adds one to the bucket of its age at the moment
\* of the visit, and to no other bucket.
BucketedNow(i) ==
    stats'.age_distribution =
        [stats.age_distribution EXCEPT ![BucketOfAge(now - tree[i].mtime)] = @ + 1]

\* C21: each counted file is placed in exactly one age bucket by
\* age_days = (now - mtime) / 86400 with upper edges inclusive (<= 7,
\* <= 30, <= 90, <= 365, else '1+ years'), 'now' being read for each file
\* at the moment it is examined.
C21_CountedFileInOneBucket ==
    [][\A i \in Ids :
         (Visiting(i) /\ stats'.file_count = stats.file_count + 1) =>
             BucketedNow(i)]_vars

\* What the code does for the files whose stat() calls succeed.
C21_StattedFileInOneBucket ==
    [][\A i \in Ids :
         (Visiting(i) /\ stats'.file_count = stats.file_count + 1
            /\ tree[i].fault = "none") =>
             BucketedNow(i)]_vars

\* A file exactly 7 days old at the start was examined one second later
\* and counted in '7-30 days', after a file whose stat() raised.
C21_Witness ==
    /\ Returned
    /\ now = Now0 + 1
    /\ R.file_count = 2
    /\ R.age_distribution["7-30 days"] = 1
    /\ R.age_distribution["0-7 days"] = 0
    /\ \E i \in Ids : tree[i].fault = "stat_size"

\* ------------------------------------------------- claims: the candidates
\* The place of entry i in the order of the visits.
PlaceOf(i) == CHOOSE k \in DOMAIN order : order[k] = i

\* The entry of S visited first.
FirstOf(S) == CHOOSE i \in S : \A j \in S : PlaceOf(i) <= PlaceOf(j)

\* The files the call has visited.
FilesVisited == {i \in visited : IsFileLike(tree[i])}

\* The candidate <<entry, value>> of the first visited file of S whose
\* value v is the least (sign = -1) or the greatest (sign = 1) of S; None
\* when S is empty.
FirstExtreme(S, v(_), sign) ==
    IF S = {} THEN None
    ELSE LET best == {i \in S : \A j \in S : sign * v(j) <= sign * v(i)}
         IN  <<FirstOf(best), v(FirstOf(best))>>

MtimeOf(i) == tree[i].mtime

SizeOf(i) == tree[i].size

\* C22: the comparisons are strict, so a tie keeps the first-seen
\* candidate: for a fixed visiting order the reported oldest, newest and
\* largest are the first file in that order attaining the minimum mtime,
\* the maximum mtime and the maximum size.
C22_FirstSeenExtremes ==
    (Returned /\ FilesVisited # {}) =>
        /\ R.oldest_file = FirstExtreme(FilesVisited, MtimeOf, -1)
        /\ R.newest_file = FirstExtreme(FilesVisited, MtimeOf, 1)
        /\ R.largest_file = FirstExtreme(FilesVisited, SizeOf, 1)

\* What the code does: only the files that beat the starting values of
\* lines 73-75 compete (modified before the call started, modified after
\* the epoch, holding at least one byte).
C22_FirstSeenAmongEligible ==
    Returned =>
        /\ R.oldest_file =
              FirstExtreme({i \in FilesVisited : tree[i].mtime < now}, MtimeOf, -1)
        /\ R.newest_file =
              FirstExtreme({i \in FilesVisited : tree[i].mtime > 0}, MtimeOf, 1)
        /\ R.largest_file =
              FirstExtreme({i \in FilesVisited : tree[i].size > 0}, SizeOf, 1)

\* Two files tie on time and size, and the second of the tree was visited
\* first and is the candidate.
C22_Witness ==
    /\ Returned
    /\ Len(tree) = 2
    /\ tree[1] = tree[2]
    /\ tree[1].size = 2
    /\ tree[1].mtime = MtimeDefault
    /\ order = <<2, 1>>
    /\ R.oldest_file = <<2, MtimeDefault>>
    /\ R.largest_file = <<2, 2>>

\* C24: in every result oldest_file, newest_file and largest_file are
\* absent only when file_count is 0: whenever a file was counted all three
\* are present, also when every file has size 0, or a modification time
\* of 0, or a modification time not before the start of the walk.
C24_CandidatesPresentWithFiles ==
    (Returned /\ R.file_count > 0) =>
        /\ R.oldest_file # None
        /\ R.newest_file # None
        /\ R.largest_file # None

\* What the code guarantees: with no file counted the three are absent.
C24_CandidatesAbsentWithoutFiles ==
    (Returned /\ R.file_count = 0) =>
        /\ R.oldest_file = None
        /\ R.newest_file = None
        /\ R.largest_file = None

\* One empty file modified at the epoch was counted, and only the oldest
\* file is present.
C24_Witness ==
    /\ Returned
    /\ R.file_count = 1
    /\ tree[1].size = 0
    /\ tree[1].mtime = MtimeEpoch
    /\ R.oldest_file # None
    /\ R.newest_file = None
    /\ R.largest_file = None

\* --------------------------------------- claims: data and cache folders
\* The names of the folders of a bundle under a root ("data" or "cache"):
\* those the override table lists for the bundle's name, else the name.
FolderNames(name, root) ==
    IF name \in DOMAIN APP_FOLDER_MAPPING
    THEN {APP_FOLDER_MAPPING[name][root][k] :
            k \in 1..Len(APP_FOLDER_MAPPING[name][root])}
    ELSE {name}

\* C23: for an application without a plugin, data_size and cache_size are
\* the sums over the folders the override table lists for the bundle's
\* name that exist; a bundle the table does not know uses its own name
\* under both roots; a folder that does not exist contributes 0.
C23_FoldersFromTableOrName ==
    \A r \in DOMAIN apps :
        (apps[r].name # "Google Chrome") =>
            /\ apps[r].data_size =
                  SumFolders({<<"data", n>> : n \in FolderNames(apps[r].name, "data")})
            /\ apps[r].cache_size =
                  SumFolders({<<"cache", n>> : n \in FolderNames(apps[r].name, "cache")})

\* Figma is recorded with the sum of its two data folders, while the
\* cache folder of the table is missing.
C23_Witness ==
    /\ Len(apps) = 1
    /\ apps[1].name = "Figma"
    /\ Folder("data", "Figma").size = 1
    /\ Folder("data", "figma-desktop").size = 2
    /\ ~Folder("cache", "Figma").exists
    /\ apps[1].data_size = 3
    /\ apps[1].cache_size = 0

\* ------------------------------------------ claims: totals and breakdowns
\* The sum of field f ("count" or "size") over the keys K of file_types ft.
RECURSIVE SumTypes(_, _, _)
SumTypes(ft, K, f) ==
    IF K = {} THEN 0
    ELSE LET k == CHOOSE x \in K : TRUE
         IN  ft[k][f] + SumTypes(ft, K \ {k}, f)

TypesMatchTotals ==
    /\ SumTypes(R.file_types, DOMAIN R.file_types, "count") = R.file_count
    /\ SumTypes(R.file_types, DOMAIN R.file_types, "size") = R.total_size

\* C25: in every result the per-extension counts sum to file_count and
\* the per-extension sizes sum to total_size, whatever entries were
\* visited, those that raise errors included.
C25_TypesMatchTotals == Returned => TypesMatchTotals

\* What the code guarantees: the sums agree when no stat() of a visited
\* file raised.
C25_TypesMatchTotalsWithoutStatFaults ==
    (Returned /\ \A i \in visited : tree[i].fault \notin {"stat_size", "stat_mtime"})
        => TypesMatchTotals

\* A file whose second stat() raised was visited with a sound file: its
\* size is in total_size and under no extension.
C25_Witness ==
    /\ Returned
    /\ \E i \in visited : tree[i].kind = "file" /\ tree[i].fault = "stat_mtime"
    /\ \E i \in visited : tree[i].kind = "file" /\ tree[i].fault = "none"
    /\ R.total_size = 2
    /\ SumTypes(R.file_types, DOMAIN R.file_types, "size") = 1

\* The sum of the sizes of the pairs <<entry, size>> of the list s whose
\* entry is in S.
RECURSIVE SumListed(_, _)
SumListed(s, S) ==
    IF s = <<>> THEN 0
    ELSE (IF Head(s)[1] \in S THEN Head(s)[2] ELSE 0) + SumListed(Tail(s), S)

\* C26, as claimed: with show_subfolders the sizes of the listed
\* subfolders sum to at most total_size, for recursive=True and for
\* recursive=False alike.
C26_SubfoldersWithinTotal ==
    (Returned /\ show_subfolders) => SumListed(R.subfolders, Ids) <= R.total_size

\* C26, amended: for recursive=True the sizes of the listed subfolders
\* that are directories themselves sum to at most total_size.  (A link to
\* a directory is listed with the size of its target, which the walk does
\* not enter; with recursive=False total_size holds the files directly
\* under the root only.)
C26_DirectoriesWithinRecursiveTotal ==
    (Returned /\ show_subfolders /\ recursive) =>
        SumListed(R.subfolders, {i \in Ids : tree[i].kind = "dir"}) <= R.total_size

\* A recursive call has listed one directory whose two files make up all
\* of total_size.
C26_Witness ==
    /\ Returned /\ show_subfolders /\ recursive
    /\ Len(R.subfolders) = 1
    /\ tree[R.subfolders[1][1]].kind = "dir"
    /\ R.subfolders[1][2] = 2
    /\ R.total_size = 2

====
